---- MODULE Spec2Model ----
(***************************************************************************)
(* A model of pfs.ga.pfsspec.core.grid.ArrayGrid: an N-dimensional         *)
(* parameter grid with named value arrays, per-point validity indexes,     *)
(* eager (in-memory) and lazy (storage-backed) modes, index resolution     *)
(* and interpolation.                                                      *)
(*                                                                         *)
(* Conventions.  Axis positions are 0-based as in the Python source.  A    *)
(* grid point is a tuple of positions, one per axis.  An array over the    *)
(* grid is a function from grid points to value vectors (the trailing      *)
(* dimension).  np.nan is the integer NaN; all data values are >= 0.       *)
(* A Python exception is the outcome "raise" of an operation.              *)
(***************************************************************************)
EXTENDS Integers, Sequences, FiniteSets, TLC

VARIABLES
    axes,            \* Grid.axes: sequence of [name, values], declaration order
    preload_arrays,  \* ArrayGrid.preload_arrays: TRUE = eager, FALSE = lazy
    fileformat,      \* Grid.fileformat
    slice,           \* ArrayGrid.slice: [set, s]; set = FALSE is None
    values,          \* ArrayGrid.values: name -> [st, a]
    value_shapes,    \* ArrayGrid.value_shapes: name -> [st, n]
    value_indexes,   \* ArrayGrid.value_indexes: name -> [st, a]
    store,           \* backing storage: name -> [value: [has, a], index: [has, a]]
    hist,            \* history of a value array: name -> "plain" after init_value
                     \* and set_value_at calls with valid=None and s=None only,
                     \* "any" after init_value and other set_value_at calls too,
                     \* "other" when undeclared or loaded from a file
    res,             \* the last operation: its arguments and its outcome
    top,             \* GridBuilder.top: [set, n]; set = FALSE is None
    input_grid_index,   \* GridBuilder.input_grid_index: [set, cols]
    output_grid_index,  \* GridBuilder.output_grid_index: [set, cols]
    target_wave,        \* Resampler.target_wave: [set, v]; set = FALSE is None
    target_wave_edges,  \* Resampler.target_wave_edges: [set, v]
    other,              \* a second ArrayGrid instance: [made, of_orig,
                        \* preload_arrays, slice]
    par                 \* a Parameter of the sampler: [value, min, max, dist,
                        \* ranged]; ranged is set by an init_from_args that
                        \* was given one value, or two with min <= max

\* The fields of the GridBuilder that works on the grid.
gridbuilder == <<top, input_grid_index, output_grid_index>>

\* The fields of the Resampler.
resampler == <<target_wave, target_wave_edges>>

\* The objects used next to a grid and its builder.
companions == <<resampler, other, par>>

vars == <<axes, preload_arrays, fileformat, slice, values, value_shapes,
          value_indexes, store, hist, res, gridbuilder, companions>>

-----------------------------------------------------------------------------
(* Values *)

NaN == -1

Names == {"flux"}

IsNaN(x) == x = NaN

\* A slice of an array after np.full(shape, np.nan), and of a zero-filled dataset.
NaNVec == <<NaN, NaN>>
ZeroVec == <<0, 0>>

\* Length of the trailing dimension of a value array: shape = (VecLen,).
VecLen == Len(NaNVec)

-----------------------------------------------------------------------------
(* Axes, index tuples and grid points *)

Axis(n, v) == [name |-> n, values |-> v]

AxisLen(ax) == Len(ax.values)

\* axis.values[i] for a 0-based position i
AxisVal(ax, i) == ax.values[i + 1]

AxisNames(axs) == {axs[d].name : d \in 1..Len(axs)}

\* One entry of an index tuple: an integer position, slice(None), or slice(lo, hi).
IntE(i) == [k |-> "int", lo |-> i, hi |-> i + 1]
FullE == [k |-> "full", lo |-> 0, hi |-> 0]
SliceE(lo, hi) == [k |-> "slice", lo |-> lo, hi |-> hi]

\* The trailing-dimension argument s of the read and write paths.
NoS == [k |-> "none", lo |-> 0, hi |-> 0]
PartS == SliceE(0, 1)

MaxAxisLen(axs) ==
    CHOOSE m \in 0..10 : /\ \A d \in 1..Len(axs) : AxisLen(axs[d]) <= m
                         /\ \E d \in 1..Len(axs) : AxisLen(axs[d]) = m

GridPoints(axs) ==
    {p \in [1..Len(axs) -> 0..(MaxAxisLen(axs) - 1)] :
        \A d \in 1..Len(axs) : p[d] < AxisLen(axs[d])}

\* Positions 0..n-1 that a numpy index entry selects on an axis of length n.
EntryPositions(e, n) ==
    CASE e.k = "int" -> {e.lo}
      [] e.k = "full" -> 0..(n - 1)
      [] OTHER -> {i \in 0..(n - 1) : e.lo <= i /\ i < e.hi}

\* Grid points that an index tuple selects.
Sel(axs, idx) ==
    {p \in GridPoints(axs) :
        \A d \in 1..Len(axs) : p[d] \in EntryPositions(idx[d], AxisLen(axs[d]))}

\* An index tuple numpy accepts for the grid: one entry per axis, integer
\* positions inside the axis.
IdxInRange(axs, idx) ==
    /\ Len(idx) = Len(axs)
    /\ \A d \in 1..Len(axs) :
          idx[d].k = "int" => (0 <= idx[d].lo /\ idx[d].lo < AxisLen(axs[d]))

IsSinglePoint(idx) == \A d \in 1..Len(idx) : idx[d].k = "int"

\* The index tuples a caller passes: per axis a position or the full range.
CallerIdx(axs) ==
    {idx \in [1..Len(axs) -> {IntE(i) : i \in 0..(MaxAxisLen(axs) - 1)} \cup {FullE}] :
        IdxInRange(axs, idx)}

\* Grid.rectify_index(idx, s): the index tuple with the trailing slice appended.
rectify_index(idx, s) == IF s.k = "none" THEN idx ELSE Append(idx, s)

\* vec[s] for the trailing entry of a rectified index
TrailOf(ridx, naxes) == IF Len(ridx) > naxes THEN ridx[naxes + 1] ELSE NoS

ReadVec(vec, s) == IF s.k = "none" THEN vec ELSE SubSeq(vec, s.lo + 1, s.hi)

WriteVec(old, s, new) ==
    IF s.k = "none"
    THEN new
    ELSE [i \in 1..Len(old) |-> IF s.lo < i /\ i <= s.hi THEN new[i - s.lo] ELSE old[i]]

-----------------------------------------------------------------------------
(* Arrays in memory and in storage *)

ArrNone(a) == [st |-> "none", a |-> a]
ArrSome(a) == [st |-> "array", a |-> a]
ArrMissing(a) == [st |-> "missing", a |-> a]

ConstArr(axs, v) == [p \in GridPoints(axs) |-> v]

NoItem(a) == [has |-> FALSE, a |-> a]
Item(a) == [has |-> TRUE, a |-> a]

\* Storage backend of the Grid base: has_item, allocate_item, save_item, load_item.
has_item(name, which) ==
    IF which = "value" THEN store[name].value.has ELSE store[name].index.has

\* allocate_item creates a zero-filled dataset of the given shape.
allocate_item(st, name, which, a) ==
    IF which = "value"
    THEN [st EXCEPT ![name].value = Item(a)]
    ELSE [st EXCEPT ![name].index = Item(a)]

\* save_item(path, array, s=idx): writes the part idx of an existing dataset.
save_item(st, name, which, sel, s, v) ==
    IF which = "value"
    THEN [st EXCEPT ![name].value.a =
            [p \in DOMAIN @ |-> IF p \in sel THEN WriteVec(@[p], s, v) ELSE @[p]]]
    ELSE [st EXCEPT ![name].index.a =
            [p \in DOMAIN @ |-> IF p \in sel THEN v ELSE @[p]]]

-----------------------------------------------------------------------------
(* Outcomes of an operation *)

Raise(e) == [k |-> "raise", err |-> e]
RetNone == [k |-> "none"]
RetValue(d) == [k |-> "value", data |-> d]
RetOk == [k |-> "ok"]

NoOp == [op |-> "none"]

-----------------------------------------------------------------------------
(* ArrayGrid: validity, read path, write path *)

\* ensure_lazy_load: TRUE when it raises NotImplementedError.
ensure_lazy_load_raises == ~preload_arrays /\ fileformat # "h5"

\* Mutant: a slice counts as invalid only when every entry is NaN.
is_value_valid_all(name, value) == \E i \in 1..Len(value) : ~IsNaN(value[i])

\* is_value_valid with config = None: no NaN along the last axis.
is_value_valid(name, value) == ~(\E i \in 1..Len(value) : IsNaN(value[i]))

has_value_index(name) ==
    IF preload_arrays
    THEN value_indexes[name].st = "array"
    ELSE value_indexes[name].st # "missing" /\ has_item(name, "index")

\* Mutant: an unfilled point is reported as filled.
has_value_at_true(name, idx, mode) == "T"

\* has_value_at: "T", "F", or "raise" (subscripting a None index).
has_value_at(name, idx, mode) ==
    IF has_value_index(name)
    THEN IF value_indexes[name].st # "array"
         THEN "raise"
         ELSE IF mode = "any"
              THEN IF \E p \in Sel(axes, idx) : value_indexes[name].a[p] THEN "T" ELSE "F"
              ELSE IF \A p \in Sel(axes, idx) : value_indexes[name].a[p] THEN "T" ELSE "F"
    ELSE "T"

\* The stored data an index tuple and trailing slice select from an array.
Slab(a, idx, s) == [p \in Sel(axes, idx) |-> ReadVec(a[p], s)]

\* get_value_at(name, idx, s): the outcome.
get_value_at(name, idx, s) ==
    LET hv == has_value_at(name, idx, "any") IN
    CASE hv = "raise" -> Raise("TypeError")
      [] hv = "F" -> RetNone
      [] OTHER ->
           IF preload_arrays
           THEN CASE values[name].st = "missing" -> Raise("KeyError")
                  [] values[name].st = "none" -> Raise("TypeError")
                  [] OTHER -> RetValue(Slab(values[name].a, idx, s))
           ELSE IF ensure_lazy_load_raises
                THEN Raise("NotImplementedError")
                ELSE IF has_item(name, "value")
                     THEN RetValue(Slab(store[name].value.a, idx, s))
                     ELSE RetNone

\* Assignment a[idx] = v (broadcast over the selected points).
AssignBool(a, idx, v) == [p \in DOMAIN a |-> IF p \in Sel(axes, idx) THEN v ELSE a[p]]
AssignVec(a, idx, s, v) ==
    [p \in DOMAIN a |-> IF p \in Sel(axes, idx) THEN WriteVec(a[p], s, v) ELSE a[p]]

\* The validity flag set_value_at stores: the caller's, or the predicate's.
ValidFlag(name, value, valid) ==
    CASE valid = "T" -> TRUE
      [] valid = "F" -> FALSE
      [] OTHER -> is_value_valid(name, value)

\* Mutant: the write leaves the validity index as it was.
set_value_at_index_stale(name, idx, value, valid) ==
    [vi |-> value_indexes, st |-> store]

\* set_value_at, lines 313-320: the validity index after the write.
set_value_at_index(name, idx, value, valid) ==
    IF has_value_index(name)
    THEN IF preload_arrays
         THEN [vi |-> [value_indexes EXCEPT ![name].a =
                          AssignBool(@, idx, ValidFlag(name, value, valid))],
               st |-> store]
         ELSE [vi |-> value_indexes,
               st |-> save_item(store, name, "index", Sel(axes, idx), NoS,
                                ValidFlag(name, value, valid))]
    ELSE [vi |-> value_indexes, st |-> store]

\* set_value_at(name, idx, value, valid, s): outcome and state after the call.
set_value_at(name, idx, value, valid, s) ==
    IF ensure_lazy_load_raises
    THEN [out |-> Raise("NotImplementedError"), vi |-> value_indexes,
          vals |-> values, st |-> store]
    ELSE LET i == set_value_at_index(name, idx, value, valid) IN
         IF preload_arrays
         THEN CASE values[name].st = "missing" ->
                     [out |-> Raise("KeyError"), vi |-> i.vi, vals |-> values, st |-> i.st]
                [] values[name].st = "none" ->
                     [out |-> Raise("TypeError"), vi |-> i.vi, vals |-> values, st |-> i.st]
                [] OTHER ->
                     [out |-> RetOk, vi |-> i.vi,
                      vals |-> [values EXCEPT ![name].a = AssignVec(@, idx, s, value)],
                      st |-> i.st]
         ELSE IF has_item(name, "value")
              THEN [out |-> RetOk, vi |-> i.vi, vals |-> values,
                    st |-> save_item(i.st, name, "value", Sel(axes, idx), s, value)]
              ELSE [out |-> Raise("KeyError"), vi |-> i.vi, vals |-> values, st |-> i.st]

-----------------------------------------------------------------------------
(* ArrayGrid: declaring and loading value arrays *)

\* init_value(name, shape): shape is "none" (None), "vec" ((VecLen,)) or
\* "matrix" (a shape of rank 2).
init_value(name, shape) ==
    CASE shape = "none" ->
           [out |-> RetOk,
            vals |-> [values EXCEPT ![name] = ArrNone(ConstArr(axes, NaNVec))],
            shp |-> [value_shapes EXCEPT ![name] = "none"],
            vi |-> [value_indexes EXCEPT ![name] = ArrNone(ConstArr(axes, FALSE))],
            st |-> store]
      [] shape = "matrix" ->
           [out |-> Raise("NotImplementedError"), vals |-> values,
            shp |-> value_shapes, vi |-> value_indexes, st |-> store]
      [] OTHER ->
           IF preload_arrays
           THEN [out |-> RetOk,
                 vals |-> [values EXCEPT ![name] = ArrSome(ConstArr(axes, NaNVec))],
                 shp |-> [value_shapes EXCEPT ![name] = "vec"],
                 vi |-> [value_indexes EXCEPT ![name] = ArrSome(ConstArr(axes, FALSE))],
                 st |-> store]
           ELSE [out |-> RetOk,
                 vals |-> [values EXCEPT ![name] = ArrNone(ConstArr(axes, NaNVec))],
                 shp |-> [value_shapes EXCEPT ![name] = "vec"],
                 vi |-> [value_indexes EXCEPT ![name] = ArrNone(ConstArr(axes, FALSE))],
                 st |-> IF has_item(name, "value")
                        THEN store
                        ELSE allocate_item(
                                 allocate_item(store, name, "value", ConstArr(axes, ZeroVec)),
                                 name, "index", ConstArr(axes, FALSE))]

\* enum_values: the value names found in the file, or else the declared ones.
enum_values ==
    LET inFile == {n \in Names : store[n].value.has \/ store[n].index.has} IN
    IF inFile # {} THEN inFile ELSE {n \in Names : values[n].st # "missing"}

\* load_item(path, np.ndarray): the dataset, or None when the file has none.
load_item(name, which) ==
    IF which = "value"
    THEN IF store[name].value.has THEN ArrSome(store[name].value.a)
         ELSE ArrNone(ConstArr(axes, NaNVec))
    ELSE IF store[name].index.has THEN ArrSome(store[name].index.a)
         ELSE ArrNone(ConstArr(axes, FALSE))

\* load_value_indexes
load_value_indexes ==
    [n \in Names |-> IF n \in enum_values THEN load_item(n, "index") ELSE value_indexes[n]]

\* load_values(s=None): the value arrays after the call.
load_values ==
    [n \in Names |->
        IF n \in enum_values
        THEN IF preload_arrays
             THEN load_item(n, "value")
             ELSE ArrNone(ConstArr(axes, NaNVec))
        ELSE values[n]]

\* load_values(s=None): the value shapes after the call.
load_value_shapes ==
    [n \in Names |->
        IF n \in enum_values
        THEN IF preload_arrays
             THEN IF store[n].value.has THEN "vec" ELSE value_shapes[n]
             ELSE IF store[n].value.has THEN "vec" ELSE "none"
        ELSE value_shapes[n]]

-----------------------------------------------------------------------------
(* Building the validity index *)

\* Mutant: the index is never built again, whatever rebuild says.
build_value_index_keep(name, rebuild) == [out |-> RetOk, vi |-> value_indexes]

\* build_value_index(name, rebuild): the outcome and the validity indexes
\* after the call. The log messages subscript value_shapes[name].
build_value_index(name, rebuild) ==
    CASE rebuild /\ ~preload_arrays ->
           [out |-> Raise("Exception"), vi |-> value_indexes]
      [] value_shapes[name] = "missing" ->
           [out |-> Raise("KeyError"), vi |-> value_indexes]
      [] rebuild \/ value_indexes[name].st # "array" ->
           CASE values[name].st = "missing" ->
                  [out |-> Raise("KeyError"), vi |-> value_indexes]
             [] values[name].st = "none" ->
                  [out |-> Raise("TypeError"), vi |-> value_indexes]
             [] OTHER ->
                  [out |-> RetOk,
                   vi |-> [value_indexes EXCEPT ![name] =
                             ArrSome([p \in GridPoints(axes) |->
                                        is_value_valid(name, values[name].a[p])])]]
      [] OTHER -> [out |-> RetOk, vi |-> value_indexes]

\* build_value_indexes(rebuild): build_value_index for every name in
\* self.values; Names has one name.
build_value_indexes(rebuild) ==
    LET declared == {n \in Names : values[n].st # "missing"} IN
    IF declared = {}
    THEN [out |-> RetOk, vi |-> value_indexes]
    ELSE build_value_index(CHOOSE n \in declared : TRUE, rebuild)

-----------------------------------------------------------------------------
(* GridBuilder: fields *)

\* GridBuilder.__init__: top, input_grid_index and output_grid_index are None.
NoTop == [set |-> FALSE, n |-> 0]
TopOf(n) == [set |-> TRUE, n |-> n]
NoGridIndex == [set |-> FALSE, cols |-> <<>>]

-----------------------------------------------------------------------------
(* Resampler: fields *)

\* A wavelength array that is None, and one that is given.
NoWave == [set |-> FALSE, v |-> <<>>]
WaveOf(v) == [set |-> TRUE, v |-> v]

\* No second instance of ArrayGrid was constructed.
NoInstance ==
    [made |-> FALSE, of_orig |-> FALSE, preload_arrays |-> FALSE,
     slice |-> [set |-> FALSE, s |-> <<>>]]

\* A number that is None, and one that is given.
NoNum == [set |-> FALSE, n |-> 0]
Num(n) == [set |-> TRUE, n |-> n]

\* Parameter(name): value, min, max and dist are None.
NewParameter ==
    [value |-> NoNum, min |-> NoNum, max |-> NoNum, dist |-> "none", ranged |-> FALSE]

\* The companions after their construction.
InitCompanions ==
    /\ target_wave = NoWave
    /\ target_wave_edges = NoWave
    /\ other = NoInstance
    /\ par = NewParameter

-----------------------------------------------------------------------------
(* Initial states *)

NoSlice == [set |-> FALSE, s |-> <<>>]

EmptyStore(axs) ==
    [n \in Names |-> [value |-> NoItem(ConstArr(axs, ZeroVec)),
                      index |-> NoItem(ConstArr(axs, FALSE))]]

\* The grid files a program may find: none, or one written by an earlier save
\* with the given vectors at the grid points and one of the given validity
\* indexes.
Files(axs, vecs, idxs) ==
    {EmptyStore(axs)} \cup
    {[n \in Names |-> [value |-> Item(va), index |-> Item(ia)]] :
        va \in [GridPoints(axs) -> vecs], ia \in idxs}

\* Storage mode and file format: eager, lazy on the chunked format, lazy on
\* another format (an eager grid never looks at the format).
Modes == {<<TRUE, "h5">>, <<FALSE, "h5">>, <<FALSE, "npz">>}

\* The state after ArrayGrid.__init__ and configuration of axes, storage mode
\* and file format; no value array is declared yet.
InitGrid(axesSet, modes, vecs, idxs) ==
    /\ axes \in axesSet
    /\ \E m \in modes : preload_arrays = m[1] /\ fileformat = m[2]
    /\ slice = NoSlice
    /\ values = [n \in Names |-> ArrMissing(ConstArr(axes, NaNVec))]
    /\ value_shapes = [n \in Names |-> "missing"]
    /\ value_indexes = [n \in Names |-> ArrMissing(ConstArr(axes, FALSE))]
    /\ store \in Files(axes, vecs, idxs)
    /\ hist = [n \in Names |-> "other"]
    /\ res = NoOp
    /\ top = NoTop
    /\ input_grid_index = NoGridIndex
    /\ output_grid_index = NoGridIndex
    /\ InitCompanions

-----------------------------------------------------------------------------
(* Actions: declaring, loading, writing and reading value arrays *)

InitValue(name, shape) ==
    LET r == init_value(name, shape) IN
    /\ values' = r.vals
    /\ value_shapes' = r.shp
    /\ value_indexes' = r.vi
    /\ store' = r.st
    /\ hist' = [hist EXCEPT ![name] =
                   CASE r.out.k # "ok" -> @
                     [] shape = "vec" -> "plain"
                     [] OTHER -> "other"]
    /\ res' = [op |-> "init_value", name |-> name, shape |-> shape, out |-> r.out]
    /\ UNCHANGED <<companions, gridbuilder, axes, preload_arrays, fileformat, slice>>

\* load_items: load_value_indexes, then load_values(s=None).
LoadItems ==
    /\ value_indexes' = load_value_indexes
    /\ values' = load_values
    /\ value_shapes' = load_value_shapes
    /\ hist' = [n \in Names |-> IF n \in enum_values THEN "other" ELSE hist[n]]
    /\ res' = [op |-> "load_items", out |-> RetOk]
    /\ UNCHANGED <<companions, gridbuilder, axes, preload_arrays, fileformat, slice, store>>

SetValueAt(name, idx, value, valid, s) ==
    LET r == set_value_at(name, idx, value, valid, s) IN
    /\ value_indexes' = r.vi
    /\ values' = r.vals
    /\ store' = r.st
    /\ hist' = [hist EXCEPT ![name] =
                   CASE @ = "other" -> "other"
                     [] valid = "none" /\ s.k = "none" -> @
                     [] OTHER -> "any"]
    /\ res' = [op |-> "set_value_at", name |-> name, idx |-> idx, value |-> value,
               valid |-> valid, s |-> s, out |-> r.out]
    /\ UNCHANGED <<companions, gridbuilder, axes, preload_arrays, fileformat, slice, value_shapes>>

\* The write a read follows directly, when it was to the same array and index.
WriteBefore(name, idx) ==
    IF res.op = "set_value_at" /\ res.name = name /\ res.idx = idx
    THEN <<[value |-> res.value, valid |-> res.valid, s |-> res.s, out |-> res.out]>>
    ELSE <<>>

GetValueAt(name, idx, s) ==
    /\ res' = [op |-> "get_value_at", name |-> name, idx |-> idx, s |-> s,
               out |-> get_value_at(name, idx, s), after |-> WriteBefore(name, idx)]
    /\ UNCHANGED <<companions, gridbuilder, axes, preload_arrays, fileformat, slice, values, value_shapes,
                   value_indexes, store, hist>>

\* The calls of set_value_at: a vector with data or with a NaN, the validity
\* left to the predicate or given against it, and a write of a part with s.
WriteCalls ==
    {[value |-> <<1, 2>>, valid |-> "none", s |-> NoS],
     [value |-> <<1, 2>>, valid |-> "F", s |-> NoS],
     [value |-> <<3, NaN>>, valid |-> "none", s |-> NoS],
     [value |-> <<3, NaN>>, valid |-> "T", s |-> NoS],
     [value |-> <<5>>, valid |-> "none", s |-> PartS]}

-----------------------------------------------------------------------------
(* Claims on the read and write paths *)

\* The grid point a single-point index tuple names.
PointOf(idx) == [d \in 1..Len(idx) |-> idx[d].lo]

\* A get_value_at that directly follows a completed whole-slice set_value_at of
\* the same declared array at the same single grid point.
IsRoundTrip ==
    /\ res.op = "get_value_at"
    /\ value_shapes[res.name] = "vec"
    /\ res.after # <<>>
    /\ IsSinglePoint(res.idx)
    /\ res.s.k = "none"
    /\ res.after[1].s.k = "none"
    /\ res.after[1].out.k = "ok"

\* C1: after set_value_at(name, idx, value) of a value that counts as data, a
\* get_value_at(name, idx) on the same grid returns exactly the value written
\* and the validity index of the array is true at idx, in eager and in lazy
\* storage mode.
C1_RoundTrip ==
    (IsRoundTrip /\ ValidFlag(res.name, res.after[1].value, res.after[1].valid))
        => /\ res.out.k = "value"
           /\ res.out.data[PointOf(res.idx)] = res.after[1].value
           /\ value_indexes[res.name].st = "array"
           /\ value_indexes[res.name].a[PointOf(res.idx)]

\* The in-memory validity index of the array has an entry at the point.
HasEntry(name, p) == value_indexes[name].st = "array"

\* C2: get_value_at at a single grid point whose validity index entry is false
\* returns None: it neither raises nor returns stored or placeholder data.
C2_InvalidPointIsNone ==
    (/\ res.op = "get_value_at"
     /\ IsSinglePoint(res.idx)
     /\ HasEntry(res.name, PointOf(res.idx))
     /\ ~value_indexes[res.name].a[PointOf(res.idx)])
        => res.out.k = "none"

\* C2 witness: a read of an unfilled point that holds stored numbers returned None.
C2_Witness ==
    /\ res.op = "get_value_at"
    /\ IsSinglePoint(res.idx)
    /\ preload_arrays
    /\ HasEntry(res.name, PointOf(res.idx))
    /\ ~value_indexes[res.name].a[PointOf(res.idx)]
    /\ values[res.name].st = "array"
    /\ values[res.name].a[PointOf(res.idx)] = <<1, 2>>
    /\ res.out.k = "none"

\* C3: every grid point whose stored data is part of a result of get_value_at,
\* also for an index spanning several grid points, has a true entry in the
\* validity index of the array.
C3_ReadOnlyValid ==
    (/\ res.op = "get_value_at"
     /\ res.out.k = "value"
     /\ value_indexes[res.name].st = "array")
        => \A p \in DOMAIN res.out.data : value_indexes[res.name].a[p]

\* index true iff the stored slice has no NaN, at every point of array n
IndexMatchesData(n) ==
    (values[n].st = "array" /\ value_indexes[n].st = "array")
        => \A p \in GridPoints(axes) :
              value_indexes[n].a[p] <=> ~(\E i \in 1..VecLen : IsNaN(values[n].a[p][i]))

\* C4 as stated: in an eager grid, after init_value and any sequence of
\* set_value_at calls, the validity index is true at a point iff the stored
\* slice has no NaN.
C4_IndexIffNoNaN_AnyWrites ==
    \A n \in Names : (preload_arrays /\ hist[n] \in {"plain", "any"}) => IndexMatchesData(n)

\* C4 amended: in an eager grid, after init_value and any sequence of
\* set_value_at calls that leave valid unspecified and write the whole slice
\* (s = None), the validity index is true at a point iff the stored slice has
\* no NaN.
C4_IndexIffNoNaN ==
    \A n \in Names : (preload_arrays /\ hist[n] = "plain") => IndexMatchesData(n)

\* C4 witness: after plain writes one point is filled and valid, another holds a
\* slice with a NaN and is invalid.
C4_Witness ==
    \E n \in Names :
        /\ preload_arrays /\ hist[n] = "plain"
        /\ values[n].st = "array" /\ value_indexes[n].st = "array"
        /\ \E p, q \in GridPoints(axes) :
              /\ value_indexes[n].a[p] /\ values[n].a[p] = <<1, 2>>
              /\ ~value_indexes[n].a[q] /\ values[n].a[q] = <<3, NaN>>

-----------------------------------------------------------------------------
(* GridAxis and index resolution *)

\* Keyword arguments are a function from keyword names to numbers.
HasKey(kwargs, k) == k \in DOMAIN kwargs

\* GridAxis.index: the exact value -> position lookup; {} when no value matches.
AxisIndex(ax, v) == {i \in 0..(AxisLen(ax) - 1) : AxisVal(ax, i) = v}

Abs(x) == IF x < 0 THEN -x ELSE x

\* GridAxis.get_nearest_index: the position of the closest axis value, the
\* lower position on a tie.
AxisNearestIndex(ax, v) ==
    CHOOSE i \in 0..(AxisLen(ax) - 1) :
        \A j \in 0..(AxisLen(ax) - 1) :
            \/ Abs(AxisVal(ax, i) - v) < Abs(AxisVal(ax, j) - v)
            \/ (Abs(AxisVal(ax, i) - v) = Abs(AxisVal(ax, j) - v) /\ i <= j)

\* np.digitize([x], bins) for ascending bins: the number of bins <= x.
Digitize(x, ax) == Cardinality({i \in 0..(AxisLen(ax) - 1) : AxisVal(ax, i) <= x})

Max(a, b) == IF a >= b THEN a ELSE b

\* Command-line arguments: a function from argument names to value lists; a
\* name outside the domain is an argument that was not given (None).
ArgBad(args, ax) ==
    HasKey(args, ax.name) /\ Len(args[ax.name]) \notin {1, 2}

\* Mutant: every axis keeps its full range.
ArgEntry_full(args, ax) == FullE

\* Mutant: the position before the digitize result, without max(0, .).
ArgEntry_unclipped(args, ax) ==
    IF ~HasKey(args, ax.name)
    THEN FullE
    ELSE IF Len(args[ax.name]) = 2
         THEN SliceE(Digitize(args[ax.name][1], ax) - 1,
                     Digitize(args[ax.name][2], ax))
         ELSE IntE(Digitize(args[ax.name][1], ax) - 1)

ArgEntry(args, ax) ==
    IF ~HasKey(args, ax.name)
    THEN FullE
    ELSE IF Len(args[ax.name]) = 2
         THEN SliceE(Max(0, Digitize(args[ax.name][1], ax) - 1),
                     Digitize(args[ax.name][2], ax))
         ELSE IntE(Max(0, Digitize(args[ax.name][1], ax) - 1))

\* get_slice_from_args(args): the slice, or the exception on a bad value count.
get_slice_from_args(args) ==
    IF \E d \in 1..Len(axes) : ArgBad(args, axes[d])
    THEN Raise("Exception")
    ELSE RetValue([d \in 1..Len(axes) |-> ArgEntry(args, axes[d])])

\* Mutant: an axis that is not named resolves to the full range although a
\* slice is active.
get_index_entry_noslice(d, kwargs) ==
    IF HasKey(kwargs, axes[d].name)
    THEN IntE(CHOOSE i \in AxisIndex(axes[d], kwargs[axes[d].name]) : TRUE)
    ELSE FullE

\* get_index, lines 181-187: the entry for axis d once the lookup succeeded.
get_index_entry(d, kwargs) ==
    IF HasKey(kwargs, axes[d].name)
    THEN IntE(CHOOSE i \in AxisIndex(axes[d], kwargs[axes[d].name]) : TRUE)
    ELSE IF slice.set THEN slice.s[d] ELSE FullE

\* Mutant: a value without an exact match falls back to the nearest position.
get_index_nearest(kwargs) ==
    RetValue([d \in 1..Len(axes) |->
        IF HasKey(kwargs, axes[d].name)
        THEN IntE(AxisNearestIndex(axes[d], kwargs[axes[d].name]))
        ELSE IF slice.set THEN slice.s[d] ELSE FullE])

\* get_index(**kwargs): the index tuple, or KeyError from axis.index[value].
get_index(kwargs) ==
    IF \E d \in 1..Len(axes) :
          /\ HasKey(kwargs, axes[d].name)
          /\ AxisIndex(axes[d], kwargs[axes[d].name]) = {}
    THEN Raise("KeyError")
    ELSE RetValue([d \in 1..Len(axes) |-> get_index_entry(d, kwargs)])

\* get_nearest_index(**kwargs)
get_nearest_index(kwargs) ==
    [d \in 1..Len(axes) |->
        IF HasKey(kwargs, axes[d].name)
        THEN IntE(AxisNearestIndex(axes[d], kwargs[axes[d].name]))
        ELSE FullE]

\* Mutant: the bracket always starts at the nearest position.
nearby_bracket_upper(ax, v) ==
    LET n == AxisNearestIndex(ax, v) IN
    IF AxisLen(ax) = 1 THEN <<n, n>> ELSE <<n, n + 1>>

\* Mutant: a target on the last axis value is bracketed from below.
nearby_bracket_closed(ax, v) ==
    LET n == AxisNearestIndex(ax, v) IN
    CASE AxisLen(ax) = 1 -> <<n, n>>
      [] v < AxisVal(ax, n) -> <<n - 1, n>>
      [] n = AxisLen(ax) - 1 /\ v = AxisVal(ax, n) -> <<n - 1, n>>
      [] OTHER -> <<n, n + 1>>

\* get_nearby_indexes, lines 218-224: the pair of positions for one axis.
nearby_bracket(ax, v) ==
    LET n == AxisNearestIndex(ax, v) IN
    CASE AxisLen(ax) = 1 -> <<n, n>>
      [] v < AxisVal(ax, n) -> <<n - 1, n>>
      [] OTHER -> <<n, n + 1>>

\* get_nearby_indexes, lines 227-228: a position outside [0, axis length).
BracketOutside(ax, b) ==
    \/ b[1] < 0 \/ AxisLen(ax) <= b[1]
    \/ b[2] < 0 \/ AxisLen(ax) <= b[2]

\* get_nearby_indexes(**kwargs): None, the pair (idx1, idx2) of position
\* tuples, or the exception raised at the first axis that has no target.
get_nearby_indexes(kwargs) ==
    LET missing(d) == ~HasKey(kwargs, axes[d].name)
        outside(d) == BracketOutside(axes[d], nearby_bracket(axes[d], kwargs[axes[d].name]))
        stop == {d \in 1..Len(axes) : missing(d) \/ outside(d)}
    IN  IF stop = {}
        THEN RetValue([idx1 |-> [d \in 1..Len(axes) |->
                                   nearby_bracket(axes[d], kwargs[axes[d].name])[1]],
                       idx2 |-> [d \in 1..Len(axes) |->
                                   nearby_bracket(axes[d], kwargs[axes[d].name])[2]]])
        ELSE LET d == CHOOSE x \in stop : \A y \in stop : x <= y IN
             IF missing(d)
             THEN Raise(IF AxisLen(axes[d]) = 1 THEN "TypeError" ELSE "KeyError")
             ELSE RetNone

\* An integer index tuple as the entries of an index.
AsIdx(pos) == [d \in 1..Len(pos) |-> IntE(pos[d])]

-----------------------------------------------------------------------------
(* Coordinate-based reads and writes *)

\* get_value(name, **kwargs): get_index, then get_value_at.
get_value(name, kwargs) ==
    LET i == get_index(kwargs) IN
    IF i.k = "raise" THEN i ELSE get_value_at(name, i.data, NoS)

\* set_value(name, value, **kwargs): get_index, then set_value_at.
set_value(name, value, kwargs) ==
    LET i == get_index(kwargs) IN
    IF i.k = "raise"
    THEN [out |-> i, vi |-> value_indexes, vals |-> values, st |-> store]
    ELSE set_value_at(name, i.data, value, "none", NoS)

-----------------------------------------------------------------------------
(* Actions: slicing and index resolution *)

InitFromArgs(args) ==
    LET r == get_slice_from_args(args) IN
    /\ slice' = IF r.k = "value" THEN [set |-> TRUE, s |-> r.data] ELSE slice
    /\ res' = [op |-> "init_from_args", args |-> args, out |-> r]
    /\ UNCHANGED <<companions, gridbuilder, axes, preload_arrays, fileformat, values, value_shapes,
                   value_indexes, store, hist>>

\* Mutant: a lazy read keeps the array it loaded in self.values.
grid_after_read_cached(r) ==
    [axes |-> axes, slice |-> slice, value_shapes |-> value_shapes,
     value_indexes |-> value_indexes,
     values |-> IF r.op = "get_value_at" /\ r.out.k = "value" /\ ~preload_arrays
                THEN [values EXCEPT ![r.name] = ArrSome(store[r.name].value.a)]
                ELSE values]

\* The fields of the grid after a call r of a method that reads: get_index
\* to get_mask_unsliced, get_value_at and the interpolations have no
\* assignment to a field and no in-place operation on an array of the grid.
grid_after_read(r) ==
    [axes |-> axes, slice |-> slice, value_shapes |-> value_shapes,
     value_indexes |-> value_indexes, values |-> values]

Query(r) ==
    /\ res' = r
    /\ axes' = grid_after_read(r).axes
    /\ slice' = grid_after_read(r).slice
    /\ values' = grid_after_read(r).values
    /\ value_shapes' = grid_after_read(r).value_shapes
    /\ value_indexes' = grid_after_read(r).value_indexes
    /\ UNCHANGED <<companions, gridbuilder, preload_arrays, fileformat, store, hist>>

GetIndex(kwargs) ==
    Query([op |-> "get_index", kwargs |-> kwargs, out |-> get_index(kwargs)])

GetNearestIndex(kwargs) ==
    Query([op |-> "get_nearest_index", kwargs |-> kwargs,
           out |-> RetValue(get_nearest_index(kwargs))])

GetNearbyIndexes(kwargs) ==
    Query([op |-> "get_nearby_indexes", kwargs |-> kwargs,
           out |-> get_nearby_indexes(kwargs)])

GetValue(name, kwargs) ==
    Query([op |-> "get_value", name |-> name, kwargs |-> kwargs,
           out |-> get_value(name, kwargs)])

SetValue(name, value, kwargs) ==
    LET r == set_value(name, value, kwargs) IN
    /\ value_indexes' = r.vi
    /\ values' = r.vals
    /\ store' = r.st
    /\ res' = [op |-> "set_value", name |-> name, value |-> value, kwargs |-> kwargs,
               out |-> r.out,
               before |-> [vi |-> value_indexes, vals |-> values, st |-> store]]
    /\ UNCHANGED <<companions, gridbuilder, axes, preload_arrays, fileformat, slice, value_shapes, hist>>

-----------------------------------------------------------------------------
(* Interpolation *)

\* A number computed by an interpolation: NaN, or the fraction num / den, den > 0.
RNaN == [nan |-> TRUE, num |-> 0, den |-> 1]
Frac(n, d) == [nan |-> FALSE, num |-> n, den |-> d]

\* The value array a read goes to: the in-memory array, or the storage item.
StoredAt(name, p) ==
    IF preload_arrays THEN values[name].a[p] ELSE store[name].value.a[p]

\* Mutant: the slope is applied to the distance from the upper bracket.
linear1d_component_xb(a, b, x, xa, xb) ==
    IF IsNaN(a) \/ IsNaN(b) \/ xb = xa
    THEN RNaN
    ELSE Frac(a * (xb - xa) + (x - xb) * (b - a), xb - xa)

\* interpolate_value_linear1d, lines 473-474: m = (b - a) / (xb - xa) and
\* value = a + (x - xa) * m for one entry of the slices; 0 / 0 and NaN give NaN.
linear1d_component(a, b, x, xa, xb) ==
    IF IsNaN(a) \/ IsNaN(b) \/ xb = xa
    THEN RNaN
    ELSE Frac(a * (xb - xa) + (x - xa) * (b - a), xb - xa)

\* The slice a get_value_at outcome holds for a single grid point.
VecOfPoint(out, pos) == out.data[pos]

\* interpolate_value_linear1d(name, **kwargs); keywords in axis order.
interpolate_value_linear1d(name, kwargs) ==
    LET nb == get_nearby_indexes(kwargs) IN
    IF nb.k # "value" THEN nb
    ELSE
    LET idx1 == nb.data.idx1
        idx2 == nb.data.idx2
        h1 == has_value_at(name, AsIdx(idx1), "any")
        h2 == IF h1 = "T" THEN has_value_at(name, AsIdx(idx2), "any") ELSE "T"
    IN
    CASE h1 = "raise" \/ h2 = "raise" -> Raise("TypeError")
      [] h1 = "F" \/ h2 = "F" -> RetNone
      [] OTHER ->
           LET x == kwargs[axes[1].name]
               xa == AxisVal(axes[1], idx1[1])
               xb == AxisVal(axes[1], idx2[1])
               a == get_value_at(name, AsIdx(idx1), NoS)
               b == get_value_at(name, AsIdx(idx2), NoS)
           IN  CASE a.k = "raise" -> a
                 [] b.k = "raise" -> b
                 [] a.k = "none" \/ b.k = "none" -> Raise("TypeError")
                 [] OTHER ->
                      RetValue([value |->
                                   [i \in 1..VecLen |->
                                       linear1d_component(VecOfPoint(a, idx1)[i],
                                                          VecOfPoint(b, idx2)[i], x, xa, xb)],
                                params |-> kwargs])

RECURSIVE SetSum(_, _)
\* The sum of f over the set S.
SetSum(S, f) ==
    IF S = {} THEN 0
    ELSE LET c == CHOOSE c \in S : TRUE IN f[c] + SetSum(S \ {c}, f)

RECURSIVE SeqProd(_)
\* The product of the entries of a sequence.
SeqProd(s) == IF s = <<>> THEN 1 ELSE Head(s) * SeqProd(Tail(s))

\* The members of a set of integers as an ascending sequence.
Ascending(S) ==
    [j \in 1..Cardinality(S) |-> CHOOSE d \in S : Cardinality({e \in S : e < d}) = j - 1]

\* enumerate_axes(squeeze=True): the axes with more than one value, in axis
\* order; entry j is yielded with the running number i = j - 1.
enumerate_axes_squeezed == Ascending({d \in 1..Len(axes) : AxisLen(axes[d]) > 1})

\* The corners of the unit hypercube of dimension k (itertools.product of [0, 1]).
UnitCorners(k) == [1..k -> {0, 1}]

\* Line 501: the index arrays kk, one per axis whose two positions differ;
\* entry j of corner c is taken from idx1 or from idx2.
kk_position(idx1, idx2, c, j) ==
    LET free == Ascending({d \in 1..Len(idx1) : idx1[d] # idx2[d]}) IN
    IF c[j] = 0 THEN idx1[free[j]] ELSE idx2[free[j]]

\* The grid points the arrays kk select for corner c: array j subscripts
\* dimension j of the grid array, the remaining dimensions are taken whole.
kk_points(idx1, idx2, k, c) ==
    {p \in GridPoints(axes) : \A j \in 1..k : p[j] = kk_position(idx1, idx2, c, j)}

\* Mutant: a corner is weighted by the distance of the target to its own side.
multilinear_component_near(x, V, pp, i) ==
    LET k == Len(x)
        w(c) == SeqProd([j \in 1..k |-> IF c[j] = 0 THEN pp[j] - x[j][1] ELSE x[j][2] - pp[j]])
    IN  IF \E c \in UnitCorners(k) : IsNaN(V[c][i])
        THEN RNaN
        ELSE Frac(SetSum(UnitCorners(k), [c \in UnitCorners(k) |-> w(c) * V[c][i]]),
                  SeqProd([j \in 1..k |-> x[j][2] - x[j][1]]))

\* RegularGridInterpolator on the 2-point grids x with the corner data V,
\* evaluated at pp: one entry of the result.
multilinear_component(x, V, pp, i) ==
    LET k == Len(x)
        w(c) == SeqProd([j \in 1..k |-> IF c[j] = 0 THEN x[j][2] - pp[j] ELSE pp[j] - x[j][1]])
    IN  IF \E c \in UnitCorners(k) : IsNaN(V[c][i])
        THEN RNaN
        ELSE Frac(SetSum(UnitCorners(k), [c \in UnitCorners(k) |-> w(c) * V[c][i]]),
                  SeqProd([j \in 1..k |-> x[j][2] - x[j][1]]))

\* interpolate_value_linearNd(name, **kwargs).
interpolate_value_linearNd(name, kwargs) ==
    LET nb == get_nearby_indexes(kwargs) IN
    IF nb.k # "value" THEN nb
    ELSE
    LET idx1 == nb.data.idx1
        idx2 == nb.data.idx2
        h1 == has_value_at(name, AsIdx(idx1), "any")
        h2 == IF h1 = "T" THEN has_value_at(name, AsIdx(idx2), "any") ELSE "T"
        sq == enumerate_axes_squeezed
        k == Len(sq)
        \* lines 490-491: idx1[i] and idx2[i] with the running number i
        xbad == \E j \in 1..k : AxisLen(axes[sq[j]]) <= idx1[j] \/ AxisLen(axes[sq[j]]) <= idx2[j]
        x == [j \in 1..k |-> <<AxisVal(axes[sq[j]], idx1[j]), AxisVal(axes[sq[j]], idx2[j])>>]
        value == get_value_at(name, AsIdx(idx1), NoS)
        nfree == Cardinality({d \in 1..Len(idx1) : idx1[d] # idx2[d]})
        kkbad == \E c \in UnitCorners(nfree), j \in 1..nfree :
                    AxisLen(axes[j]) <= kk_position(idx1, idx2, c, j)
        read == UNION {kk_points(idx1, idx2, nfree, c) : c \in UnitCorners(nfree)}
        arr == IF preload_arrays THEN values[name].a ELSE store[name].value.a
        V == [c \in UnitCorners(nfree) |->
                 arr[CHOOSE p \in kk_points(idx1, idx2, nfree, c) : TRUE]]
        pp == [j \in 1..k |-> kwargs[axes[sq[j]].name]]
    IN
    CASE h1 = "raise" \/ h2 = "raise" -> Raise("TypeError")
      [] h1 = "F" \/ h2 = "F" -> RetNone
      [] xbad -> Raise("IndexError")
      [] value.k = "raise" -> value
      [] value.k = "none" -> Raise("AttributeError")
      [] kkbad -> Raise("IndexError")
         \* get_value_at(name, kk): None when no selected point is valid
      [] has_value_index(name) /\ ~(\E p \in read : value_indexes[name].a[p]) ->
            Raise("TypeError")
         \* more than one point per corner: the shapes of line 503 differ
      [] \E d \in (nfree + 1)..Len(axes) : AxisLen(axes[d]) > 1 -> Raise("ValueError")
         \* the interpolator rejects an empty grid, a grid that is not
         \* ascending, and a target outside of it
      [] k = 0 -> Raise("ValueError")
      [] \E j \in 1..k : x[j][1] >= x[j][2] -> Raise("ValueError")
      [] \E j \in 1..k : pp[j] < x[j][1] \/ x[j][2] < pp[j] -> Raise("ValueError")
      [] OTHER ->
           RetValue([value |-> [i \in 1..VecLen |-> multilinear_component(x, V, pp, i)],
                     params |-> kwargs])

\* interpolate_value_linear(name, **kwargs)
interpolate_value_linear(name, kwargs) ==
    IF Len(axes) = 1
    THEN interpolate_value_linear1d(name, kwargs)
    ELSE interpolate_value_linearNd(name, kwargs)

-----------------------------------------------------------------------------
(* Spline interpolation *)

RECURSIVE SetProd(_, _)
\* The product of f over the set S.
SetProd(S, f) ==
    IF S = {} THEN 1
    ELSE LET c == CHOOSE c \in S : TRUE IN f[c] * SetProd(S \ {c}, f)

\* The position of an axis name in the axis list (axis_list.index).
AxisPos(name) == CHOOSE d \in 1..Len(axes) : axes[d].name = name

\* Lines 515-527: the grid point on the line through the nearest grid point
\* along the free axis, at position i of the free axis.
spline_point(fd, kwargs, i) ==
    [d \in 1..Len(axes) |->
        IF d = fd THEN i ELSE AxisNearestIndex(axes[d], kwargs[axes[d].name])]

\* Mutant: every position of the free axis counts as valid.
spline_valid_positions_all(name, fd, kwargs) == 0..(AxisLen(axes[fd]) - 1)

\* Line 530: valid_value, as the set of positions of the free axis whose grid
\* point on the line is marked valid.
spline_valid_positions(name, fd, kwargs) ==
    {i \in 0..(AxisLen(axes[fd]) - 1) : value_indexes[name].a[spline_point(fd, kwargs, i)]}

\* Line 536: too few valid points, or the target outside of their span.
spline_at_edge(ax, V, x) ==
    \/ \A i \in V : x < AxisVal(ax, i)
    \/ \A i \in V : AxisVal(ax, i) < x

\* CubicSpline(x, y)(t) with the default end conditions, for up to four
\* points: the polynomial through all the points (the line for two points, the
\* parabola for three), as a fraction with a positive denominator.
CubicSpline(ax, V, y, t) ==
    LET dj(j) == SetProd(V \ {j}, [m \in V \ {j} |-> AxisVal(ax, j) - AxisVal(ax, m)])
        den == SetProd(V, [j \in V |-> dj(j)])
        num == SetSum(V, [j \in V |->
                   y[j] * SetProd(V \ {j}, [m \in V \ {j} |-> t - AxisVal(ax, m)])
                        * SetProd(V \ {j}, [m \in V \ {j} |-> dj(m)])])
    IN  IF den < 0 THEN Frac(-num, -den) ELSE Frac(num, den)

\* interpolate_value_spline(name, free_param, **kwargs)
interpolate_value_spline(name, free_param, kwargs) ==
    IF free_param \notin AxisNames(axes) THEN Raise("ValueError")
    ELSE
    LET fd == AxisPos(free_param)
        ax == axes[fd]
        V == spline_valid_positions(name, fd, kwargs)
        arr == IF preload_arrays THEN values[name].a ELSE store[name].value.a
        y(i) == [j \in V |-> arr[spline_point(fd, kwargs, j)][i]]
    IN
    CASE value_indexes[name].st = "missing" -> Raise("KeyError")
      [] value_indexes[name].st = "none" -> Raise("TypeError")
         \* an axis without a target keeps its full range in idx: valid_value
         \* has more than one dimension and cannot subscript the axis values
      [] \E d \in 1..Len(axes) : d # fd /\ ~HasKey(kwargs, axes[d].name) ->
            Raise("IndexError")
      [] Cardinality(V) < 2 -> RetNone
      [] ~HasKey(kwargs, free_param) -> Raise("KeyError")
      [] spline_at_edge(ax, V, kwargs[free_param]) -> RetNone
      [] preload_arrays /\ values[name].st = "missing" -> Raise("KeyError")
      [] preload_arrays /\ values[name].st = "none" -> Raise("TypeError")
      [] ensure_lazy_load_raises -> Raise("NotImplementedError")
      [] ~preload_arrays /\ ~has_item(name, "value") -> Raise("TypeError")
         \* CubicSpline accepts finite values only
      [] \E j \in V, i \in 1..VecLen : IsNaN(y(i)[j]) -> Raise("ValueError")
      [] OTHER ->
           RetValue([value |-> [i \in 1..VecLen |->
                                   CubicSpline(ax, V, y(i), kwargs[free_param])],
                     params |-> [k \in DOMAIN kwargs |->
                                   IF k # free_param /\ k \in AxisNames(axes)
                                   THEN AxisVal(axes[AxisPos(k)],
                                                AxisNearestIndex(axes[AxisPos(k)], kwargs[k]))
                                   ELSE kwargs[k]]])

-----------------------------------------------------------------------------
(* Axis padding *)

\* Mutant: the added values repeat the edge value.
pad_step_flat(pa, i) ==
    [pa EXCEPT ![i + 1] = pa[i + 2], ![Len(pa) - i] = pa[Len(pa) - i - 1]]

\* pad_axes, lines 604-605: one pass of the loop, paxis[i] and paxis[-1 - i]
\* (0-based) of the sequence pa.
pad_step(pa, i) ==
    LET lower == [pa EXCEPT ![i + 1] = pa[i + 2] - (pa[i + 3] - pa[i + 2])] IN
    [lower EXCEPT ![Len(pa) - i] =
        lower[Len(pa) - i - 1] + (lower[Len(pa) - i - 1] - lower[Len(pa) - i - 2])]

RECURSIVE pad_loop(_, _)
\* pad_axes, line 603: for i in range(size - 1, -1, -1).
pad_loop(pa, i) == IF i < 0 THEN pa ELSE pad_loop(pad_step(pa, i), i - 1)

\* pad_axes, lines 601-606: the padded values of an axis with more than one
\* value; the entries np.empty leaves unset are written before they are read.
pad_values(v, size) ==
    pad_loop([k \in 1..(Len(v) + 2 * size) |->
                 IF size < k /\ k <= size + Len(v) THEN v[k - size] ELSE 0],
             size - 1)

\* pad_axes(orig_axes, size): the new axes, or the exception of line 602 when
\* the slice paxis[size:-size] cannot take the values.
pad_axes(orig_axes, size) ==
    IF size <= 0 /\ \E d \in 1..Len(orig_axes) : AxisLen(orig_axes[d]) > 1
    THEN Raise("ValueError")
    ELSE RetValue([d \in 1..Len(orig_axes) |->
                      IF AxisLen(orig_axes[d]) > 1
                      THEN Axis(orig_axes[d].name, pad_values(orig_axes[d].values, size))
                      ELSE orig_axes[d]])

-----------------------------------------------------------------------------
(* GridBuilder: grid indexes and input count *)

\* Row-major order of index tuples of the same length.
LexLess(p, q) ==
    \E d \in 1..Len(p) : p[d] < q[d] /\ \A e \in 1..(d - 1) : p[e] = q[e]

\* np.array(np.where(index)): the columns are the index tuples of the true
\* entries, in row-major order; np.where(None) has no columns.
np_where(a) ==
    LET S == {p \in DOMAIN a : a[p]} IN
    [k \in 1..Cardinality(S) |->
        CHOOSE p \in S : Cardinality({q \in S : LexLess(q, p)}) = k - 1]

\* index[s]: the sub-array a slice selects, in coordinates of its own (an
\* axis with a position drops out, a range starts again at 0).
SubArray(a, s) ==
    LET kept == Ascending({d \in 1..Len(s) : s[d].k # "int"})
        rel(p) == [j \in 1..Len(kept) |->
                     p[kept[j]] - (IF s[kept[j]].k = "slice" THEN s[kept[j]].lo ELSE 0)]
        S == Sel(axes, s)
    IN  [r \in {rel(p) : p \in S} |-> a[CHOOSE p \in S : rel(p) = r]]

\* get_value_index(name, s): [st, a] with st = "none" for None.
get_value_index(name, s) ==
    IF has_value_index(name)
    THEN IF value_indexes[name].st # "array"
         THEN [st |-> "raise", a |-> <<>>]
         ELSE [st |-> "array",
               a |-> IF s.set THEN SubArray(value_indexes[name].a, s.s)
                     ELSE value_indexes[name].a]
    ELSE [st |-> "none", a |-> <<>>]

\* get_value_index_unsliced(name, s): the index in the coordinates of the full
\* grid, false outside of s.
get_value_index_unsliced(name, s) ==
    CASE value_indexes[name].st = "missing" -> [st |-> "raise", a |-> <<>>]
      [] s.set /\ value_indexes[name].st = "none" -> [st |-> "raise", a |-> <<>>]
      [] value_indexes[name].st = "none" -> [st |-> "none", a |-> <<>>]
      [] s.set -> [st |-> "array",
                   a |-> [p \in GridPoints(axes) |->
                            p \in Sel(axes, s.s) /\ value_indexes[name].a[p]]]
      [] OTHER -> [st |-> "array", a |-> value_indexes[name].a]

\* The columns np.where gives for an index, None included.
WhereOf(index) ==
    [set |-> TRUE, cols |-> IF index.st = "array" THEN np_where(index.a) ELSE <<>>]

\* open_data, lines 55-60, on the opened input grid: the source and the target
\* indexes of 'flux', both asked for without a slice argument.
open_data_indexes ==
    LET src == get_value_index_unsliced("flux", NoSlice)
        dst == get_value_index("flux", NoSlice)
    IN  CASE src.st = "raise" -> [out |-> Raise("KeyError"), src |-> NoGridIndex,
                                  dst |-> NoGridIndex]
          [] dst.st = "raise" -> [out |-> Raise("TypeError"), src |-> WhereOf(src),
                                  dst |-> NoGridIndex]
          [] OTHER -> [out |-> RetOk, src |-> WhereOf(src), dst |-> WhereOf(dst)]

\* get_input_count()
get_input_count ==
    IF ~input_grid_index.set THEN Raise("AttributeError")
    ELSE IF top.set /\ top.n < Len(input_grid_index.cols)
         THEN RetValue(top.n)
         ELSE RetValue(Len(input_grid_index.cols))

-----------------------------------------------------------------------------
(* Actions: interpolation *)

InterpolateValueLinear1d(name, kwargs) ==
    Query([op |-> "interpolate_value_linear1d", name |-> name, kwargs |-> kwargs,
           out |-> interpolate_value_linear1d(name, kwargs)])

InterpolateValueLinearNd(name, kwargs) ==
    Query([op |-> "interpolate_value_linearNd", name |-> name, kwargs |-> kwargs,
           out |-> interpolate_value_linearNd(name, kwargs)])

InterpolateValueSpline(name, free_param, kwargs) ==
    Query([op |-> "interpolate_value_spline", name |-> name, free_param |-> free_param,
           kwargs |-> kwargs, out |-> interpolate_value_spline(name, free_param, kwargs)])

PadAxes(size) ==
    Query([op |-> "pad_axes", size |-> size, orig_axes |-> axes, out |-> pad_axes(axes, size)])

-----------------------------------------------------------------------------
(* Actions: building the validity index *)

BuildValueIndex(name, rebuild) ==
    LET r == build_value_index(name, rebuild) IN
    /\ value_indexes' = r.vi
    /\ res' = [op |-> "build_value_index", name |-> name, rebuild |-> rebuild,
               out |-> r.out, before |-> value_indexes]
    /\ UNCHANGED <<companions, gridbuilder, axes, preload_arrays, fileformat, slice, values, value_shapes,
                   store, hist>>

BuildValueIndexes(rebuild) ==
    LET r == build_value_indexes(rebuild) IN
    /\ value_indexes' = r.vi
    /\ res' = [op |-> "build_value_indexes", rebuild |-> rebuild,
               out |-> r.out, before |-> value_indexes]
    /\ UNCHANGED <<companions, gridbuilder, axes, preload_arrays, fileformat, slice, values, value_shapes,
                   store, hist>>

-----------------------------------------------------------------------------
(* Actions: GridBuilder *)

\* parse_args: get_arg('top', self.top) keeps the old value when the argument
\* was not given.
ParseArgs(arg) ==
    /\ top' = IF arg.set THEN arg ELSE top
    /\ res' = [op |-> "parse_args", arg |-> arg, out |-> RetOk]
    /\ UNCHANGED <<companions, input_grid_index, output_grid_index, axes, preload_arrays, fileformat,
                   slice, values, value_shapes, value_indexes, store, hist>>

\* open_data: open_input_grid loads the input grid, init_from_args sets its
\* slice, then the two grid indexes are taken from the grid as it is then.
OpenData(args) ==
    LET sl == get_slice_from_args(args) IN
    /\ value_indexes' = load_value_indexes
    /\ values' = load_values
    /\ value_shapes' = load_value_shapes
    /\ hist' = [n \in Names |-> IF n \in enum_values THEN "other" ELSE hist[n]]
    /\ slice' = IF sl.k = "value" THEN [set |-> TRUE, s |-> sl.data] ELSE slice
    /\ UNCHANGED <<companions, top, axes, preload_arrays, fileformat, store>>
    /\ IF sl.k = "raise"
       THEN /\ UNCHANGED <<input_grid_index, output_grid_index>>
            /\ res' = [op |-> "open_data", args |-> args, out |-> sl]
       ELSE /\ input_grid_index' =
                  IF open_data_indexes'.src.set THEN open_data_indexes'.src
                  ELSE input_grid_index
            /\ output_grid_index' =
                  IF open_data_indexes'.dst.set THEN open_data_indexes'.dst
                  ELSE output_grid_index
            /\ res' = [op |-> "open_data", args |-> args, out |-> open_data_indexes'.out]

GetInputCount ==
    /\ res' = [op |-> "get_input_count", out |-> get_input_count]
    /\ UNCHANGED <<companions, gridbuilder, axes, preload_arrays, fileformat, slice, values,
                   value_shapes, value_indexes, store, hist>>

-----------------------------------------------------------------------------
(* Inputs *)

\* All keyword-argument sets whose keys are among keys and whose values are
\* among the targets given for each key.
KwargsOver(keys, targets) ==
    UNION {{f \in [D -> UNION {targets[k] : k \in keys}] : \A k \in D : f[k] \in targets[k]} :
              D \in SUBSET keys}

\* A keyword that is not the name of an axis of any grid below.
BadKey == "Teff"

-----------------------------------------------------------------------------
(* Specification of the read and write paths: one axis, two grid points *)

RWAxes == {<<Axis("T", <<10, 20>>)>>}

\* A file whose first point is unfilled and whose second point is filled.
RWFileIndexes == {[p \in GridPoints(<<Axis("T", <<10, 20>>)>>) |-> p[1] = 1]}

RWTargets == [k \in {"T", BadKey} |-> IF k = "T" THEN {10, 15} ELSE {10}]

RWKwargs == KwargsOver({"T", BadKey}, RWTargets)

Init == InitGrid(RWAxes, Modes, {<<1, 2>>}, RWFileIndexes)

Next ==
    \/ \E n \in Names, sh \in {"none", "vec", "matrix"} : InitValue(n, sh)
    \/ LoadItems
    \/ \E n \in Names, idx \in CallerIdx(axes), w \in WriteCalls :
          SetValueAt(n, idx, w.value, w.valid, w.s)
    \/ \E n \in Names, idx \in CallerIdx(axes), s \in {NoS, PartS} : GetValueAt(n, idx, s)
    \/ \E kw \in RWKwargs : GetIndex(kw)
    \/ \E n \in Names, kw \in RWKwargs : GetValue(n, kw)
    \/ \E n \in Names, kw \in RWKwargs : SetValue(n, <<1, 2>>, kw)

Spec == Init /\ [][Next]_vars

-----------------------------------------------------------------------------
(* Specification of slicing and index resolution *)

AxT == Axis("T", <<10, 20, 40>>)
AxG == Axis("g", <<1, 3>>)
AxA == Axis("a", <<5>>)

IndexAxes == {<<AxT>>, <<AxT, AxG>>, <<AxA, AxT>>}

IndexTargets ==
    [k \in {"T", "g", "a", BadKey} |->
        CASE k = "T" -> {5, 10, 15, 16, 20, 40, 50}
          [] k = "g" -> {0, 1, 2, 3}
          [] k = "a" -> {5, 7}
          [] OTHER -> {10}]

IndexKwargs(axs) == KwargsOver(AxisNames(axs) \cup {BadKey}, IndexTargets)

\* Value lists of the command-line range arguments, per axis name.
IndexArgLists ==
    [k \in {"T", "g", "a"} |->
        CASE k = "T" -> {<<>>, <<5>>, <<15>>, <<50>>, <<10, 20>>, <<15, 50>>, <<5, 15>>,
                         <<15, 15>>, <<5, 5>>, <<50, 60>>, <<10, 20, 40>>}
          [] k = "g" -> {<<2>>, <<1, 3>>}
          [] OTHER -> {<<5>>}]

IndexArgs(axs) ==
    UNION {{f \in [D -> UNION {IndexArgLists[k] : k \in AxisNames(axs)}] :
               \A k \in D : f[k] \in IndexArgLists[k]} : D \in SUBSET AxisNames(axs)}

InitIndex == InitGrid(IndexAxes, {<<TRUE, "h5">>}, {}, {})

NextIndex ==
    \/ \E args \in IndexArgs(axes) : InitFromArgs(args)
    \/ \E kw \in IndexKwargs(axes) : GetIndex(kw)
    \/ \E kw \in IndexKwargs(axes) : GetNearestIndex(kw)
    \/ \E kw \in IndexKwargs(axes) : GetNearbyIndexes(kw)

SpecIndex == InitIndex /\ [][NextIndex]_vars

-----------------------------------------------------------------------------
(* Claims on index resolution *)

\* The entry get_index owes for an axis that is not named.
UnnamedEntry(d) == IF slice.set THEN slice.s[d] ELSE FullE

HasUnmatched(kwargs) ==
    \E d \in 1..Len(axes) :
        /\ HasKey(kwargs, axes[d].name)
        /\ \A i \in 0..(AxisLen(axes[d]) - 1) : AxisVal(axes[d], i) # kwargs[axes[d].name]

\* C6: get_index, get_value and set_value fail with a lookup error when a value
\* given for an axis has no exact match among the axis values; no index tuple
\* is returned, nothing is read, and nothing is written.
C6_NoExactMatchRaises ==
    (res.op \in {"get_index", "get_value", "set_value"} /\ HasUnmatched(res.kwargs))
        => /\ res.out = Raise("KeyError")
           /\ res.op = "set_value" =>
                 /\ res.before.vi = value_indexes
                 /\ res.before.vals = values
                 /\ res.before.st = store

\* C6 witness: set_value on a declared eager array with a value between two
\* axis values raised.
C6_Witness ==
    /\ res.op = "set_value"
    /\ HasUnmatched(res.kwargs)
    /\ preload_arrays
    /\ values[res.name].st = "array"
    /\ res.out.k = "raise"

\* C7: get_index, get_value and set_value called with a keyword that is not the
\* name of a declared axis raise an error.
C7_BadAxisNameRaises ==
    (/\ res.op \in {"get_index", "get_value", "set_value"}
     /\ \E k \in DOMAIN res.kwargs : k \notin AxisNames(axes))
        => res.out.k = "raise"

\* The bracket the claim describes for an axis and a target.
ClaimedBracket(ax, v) ==
    LET n == AxisNearestIndex(ax, v) IN
    IF AxisLen(ax) = 1 THEN <<n, n>>
    ELSE IF v < AxisVal(ax, n) THEN <<n - 1, n>> ELSE <<n, n + 1>>

InAxis(ax, i) == 0 <= i /\ i < AxisLen(ax)

\* C8: given a target for every axis, get_nearby_indexes returns None exactly
\* when the bracket of some axis has a position outside [0, axis length);
\* otherwise it returns per axis the bracket (nearest, nearest) on a single-value
\* axis, (nearest-1, nearest) for a target below the nearest value and
\* (nearest, nearest+1) otherwise, every position inside the axis, the second
\* one above the first on every axis with more than one value, and the target
\* between the two axis values.
C8_NearbyIndexes ==
    (res.op = "get_nearby_indexes" /\ AxisNames(axes) \subseteq DOMAIN res.kwargs)
        => LET br(d) == ClaimedBracket(axes[d], res.kwargs[axes[d].name]) IN
           /\ res.out.k \in {"none", "value"}
           /\ res.out.k = "none" <=>
                 \E d \in 1..Len(axes) : ~InAxis(axes[d], br(d)[1]) \/ ~InAxis(axes[d], br(d)[2])
           /\ res.out.k = "value" =>
                 \A d \in 1..Len(axes) :
                    LET i1 == res.out.data.idx1[d]
                        i2 == res.out.data.idx2[d]
                        v == res.kwargs[axes[d].name]
                    IN  /\ <<i1, i2>> = br(d)
                        /\ InAxis(axes[d], i1) /\ InAxis(axes[d], i2)
                        /\ AxisLen(axes[d]) > 1 =>
                              /\ i2 = i1 + 1
                              /\ AxisVal(axes[d], i1) <= v
                              /\ v < AxisVal(axes[d], i2)

\* C8 witness: a pair was returned on a grid with a single-value axis, for a
\* target below the nearest value of another axis.
C8_Witness ==
    /\ res.op = "get_nearby_indexes"
    /\ res.out.k = "value"
    /\ \E d, e \in 1..Len(axes) :
          /\ AxisLen(axes[d]) = 1
          /\ res.out.data.idx1[d] = res.out.data.idx2[d]
          /\ AxisLen(axes[e]) > 1
          /\ res.kwargs[axes[e].name]
                < AxisVal(axes[e], AxisNearestIndex(axes[e], res.kwargs[axes[e].name]))
          /\ res.out.data.idx2[e] = AxisNearestIndex(axes[e], res.kwargs[axes[e].name])

-----------------------------------------------------------------------------
(* Specification of the linear interpolations *)

AxT2 == Axis("T", <<10, 20>>)

\* One axis; two axes with two values each; a single-value axis before and
\* after an axis with more values.
InterpAxes == {<<AxT>>, <<AxT2, AxG>>, <<AxA, AxT2>>, <<AxT2, AxA>>}

\* The vectors a file holds at a grid point.
InterpVecs == {<<1, 2>>, <<4, NaN>>}

\* Targets below, on, between and above the axis values.
InterpTargets ==
    [k \in {"T", "g", "a"} |->
        CASE k = "T" -> {5, 10, 12, 20, 50}
          [] k = "g" -> {1, 2, 3}
          [] k = "a" -> {5, 7}]

\* A target for every axis.
InterpKwargs(axs) ==
    {kw \in KwargsOver(AxisNames(axs), InterpTargets) : DOMAIN kw = AxisNames(axs)}

\* A file holds any vectors and any validity index.
InitInterp == InitGrid(InterpAxes, Modes, InterpVecs, [GridPoints(axes) -> BOOLEAN])

NextInterp ==
    \/ LoadItems
    \/ \E n \in Names, kw \in InterpKwargs(axes) : InterpolateValueLinear1d(n, kw)
    \/ \E n \in Names, kw \in InterpKwargs(axes) : InterpolateValueLinearNd(n, kw)

SpecInterp == InitInterp /\ [][NextInterp]_vars

-----------------------------------------------------------------------------
(* Claims: linear interpolation *)

\* The validity flag in memory for a grid point.
MarkedValid(name, p) == value_indexes[name].a[p]

\* The call was given a target for the axes of the grid and nothing else, and
\* every bracket lies inside its axis.
IsBracketed(kwargs) ==
    /\ DOMAIN kwargs = AxisNames(axes)
    /\ \A d \in 1..Len(axes) :
          LET br == ClaimedBracket(axes[d], kwargs[axes[d].name]) IN
          InAxis(axes[d], br[1]) /\ InAxis(axes[d], br[2])

\* C9: on a single-axis grid with the validity index in memory and a target
\* whose bracket lies inside the axis, interpolate_value_linear1d returns None
\* when the lower or the upper bracketing point is marked invalid; when both are
\* marked valid (and the storage mode admits reads) it returns, entry by entry,
\* a + (x - xa) * (b - a) / (xb - xa) for the stored slices a and b, a NaN in
\* either making the entry NaN.
C9_Linear1d ==
    (/\ res.op = "interpolate_value_linear1d"
     /\ Len(axes) = 1
     /\ value_indexes[res.name].st = "array"
     /\ IsBracketed(res.kwargs))
        => LET x == res.kwargs[axes[1].name]
               br == ClaimedBracket(axes[1], x)
               xa == AxisVal(axes[1], br[1])
               xb == AxisVal(axes[1], br[2])
               va == MarkedValid(res.name, <<br[1]>>)
               vb == MarkedValid(res.name, <<br[2]>>)
           IN  /\ (~va \/ ~vb) => res.out.k = "none"
               /\ (va /\ vb /\ ~ensure_lazy_load_raises) =>
                     /\ res.out.k = "value"
                     /\ res.out.data.params = res.kwargs
                     /\ \A i \in 1..VecLen :
                           LET a == StoredAt(res.name, <<br[1]>>)[i]
                               b == StoredAt(res.name, <<br[2]>>)[i]
                               r == res.out.data.value[i]
                           IN  IF IsNaN(a) \/ IsNaN(b)
                               THEN r.nan
                               ELSE /\ ~r.nan
                                    /\ r.den > 0
                                    /\ r.num * (xb - xa)
                                          = r.den * (a * (xb - xa) + (x - xa) * (b - a))

\* C9 witness: a value was interpolated strictly between two axis values from
\* different stored numbers, and lies strictly between them.
C9_Witness ==
    /\ res.op = "interpolate_value_linear1d"
    /\ Len(axes) = 1
    /\ IsBracketed(res.kwargs)
    /\ res.out.k = "value"
    /\ LET x == res.kwargs[axes[1].name]
           br == ClaimedBracket(axes[1], x)
           a == StoredAt(res.name, <<br[1]>>)[1]
           b == StoredAt(res.name, <<br[2]>>)[1]
           r == res.out.data.value[1]
       IN  /\ AxisVal(axes[1], br[1]) < x
           /\ MarkedValid(res.name, <<br[1]>>) /\ MarkedValid(res.name, <<br[2]>>)
           /\ a < b
           /\ ~r.nan /\ a * r.den < r.num /\ r.num < b * r.den

\* C9 witness of the other case: None was returned with the lower bracketing
\* point valid and the upper one invalid.
C9_Witness_None ==
    /\ res.op = "interpolate_value_linear1d"
    /\ Len(axes) = 1
    /\ IsBracketed(res.kwargs)
    /\ value_indexes[res.name].st = "array"
    /\ res.out.k = "none"
    /\ LET br == ClaimedBracket(axes[1], res.kwargs[axes[1].name]) IN
       MarkedValid(res.name, <<br[1]>>) /\ ~MarkedValid(res.name, <<br[2]>>)

\* The corner points of the bracketing hypercube of a target.
Hypercube(kwargs) ==
    {p \in GridPoints(axes) :
        \A d \in 1..Len(axes) :
           LET br == ClaimedBracket(axes[d], kwargs[axes[d].name]) IN
           p[d] = br[1] \/ p[d] = br[2]}

\* The target lies off the grid lines: every corner of the hypercube has a
\* weight above zero in the interpolation.
StrictlyInside(kwargs) ==
    \A d \in 1..Len(axes) :
       AxisLen(axes[d]) > 1 =>
          AxisVal(axes[d], ClaimedBracket(axes[d], kwargs[axes[d].name])[1])
             < kwargs[axes[d].name]

\* C10: on an eager grid with the validity index in memory and a target
\* strictly inside its bracketing hypercube, interpolate_value_linearNd returns
\* no value when some corner of the hypercube is marked invalid.
C10_NoValueFromInvalidCorner ==
    (/\ res.op = "interpolate_value_linearNd"
     /\ preload_arrays
     /\ value_indexes[res.name].st = "array"
     /\ IsBracketed(res.kwargs)
     /\ StrictlyInside(res.kwargs)
     /\ \E p \in Hypercube(res.kwargs) : ~MarkedValid(res.name, p))
        => res.out.k # "value"

\* The weight of corner p in the multilinear interpolation at the targets:
\* per axis with more than one value the distance of the target from the
\* opposite bracket value; a single-value axis contributes nothing.
ClaimedWeight(kwargs, p) ==
    SeqProd([d \in 1..Len(axes) |->
                LET br == ClaimedBracket(axes[d], kwargs[axes[d].name])
                    x == kwargs[axes[d].name]
                IN  CASE AxisLen(axes[d]) = 1 -> 1
                      [] p[d] = br[1] -> AxisVal(axes[d], br[2]) - x
                      [] OTHER -> x - AxisVal(axes[d], br[1])])

\* The product of the bracket widths of the axes with more than one value.
ClaimedVolume(kwargs) ==
    SeqProd([d \in 1..Len(axes) |->
                LET br == ClaimedBracket(axes[d], kwargs[axes[d].name]) IN
                IF AxisLen(axes[d]) = 1 THEN 1
                ELSE AxisVal(axes[d], br[2]) - AxisVal(axes[d], br[1])])

\* All corners of the hypercube are marked valid and hold numbers.
AllCornersValid(name, kwargs) ==
    \A p \in Hypercube(kwargs) :
       /\ MarkedValid(name, p)
       /\ \A i \in 1..VecLen : ~IsNaN(StoredAt(name, p)[i])

\* C11: on an eager grid with every bracket inside its axis and all corners of
\* the hypercube valid, interpolate_value_linearNd returns a value, and each
\* entry of it is the sum over the corners of weight times the value stored at
\* that corner, divided by the volume of the hypercube, single-value axes
\* taking no part.
C11_Multilinear ==
    (/\ res.op = "interpolate_value_linearNd"
     /\ preload_arrays
     /\ value_indexes[res.name].st = "array"
     /\ values[res.name].st = "array"
     /\ IsBracketed(res.kwargs)
     /\ AllCornersValid(res.name, res.kwargs))
        => /\ res.out.k = "value"
           /\ \A i \in 1..VecLen :
                 LET r == res.out.data.value[i]
                     H == Hypercube(res.kwargs)
                 IN  /\ ~r.nan
                     /\ r.num * ClaimedVolume(res.kwargs)
                           = r.den * SetSum(H, [p \in H |->
                                ClaimedWeight(res.kwargs, p) * StoredAt(res.name, p)[i]])

-----------------------------------------------------------------------------
(* Specification of the spline interpolation *)

AxS == Axis("T", <<1, 2, 4>>)

\* The free axis alone, before and after a second axis.
SplineAxes == {<<AxS>>, <<AxS, AxG>>, <<AxG, AxS>>}

\* The numbers stored along an axis, by position: not on a line.
SplineProfile == <<1, 4, 2>>

\* The value arrays a file holds: numbers that differ from point to point,
\* and the same with a NaN in the slices at position 1 of the first axis.
SplineArrays(axs) ==
    LET n(p) == SplineProfile[p[1] + 1]
                   + (IF Len(p) > 1 THEN Len(SplineProfile) * SplineProfile[p[2] + 1] ELSE 0)
    IN  {[p \in GridPoints(axs) |-> <<n(p), n(p) + 1>>],
         [p \in GridPoints(axs) |-> <<n(p), IF p[1] = 1 THEN NaN ELSE n(p) + 1>>]}

SplineFiles(axs) ==
    {EmptyStore(axs)} \cup
    {[n \in Names |-> [value |-> Item(va), index |-> Item(ia)]] :
        va \in SplineArrays(axs), ia \in [GridPoints(axs) -> BOOLEAN]}

\* Targets below, on, between and above the axis values.
SplineTargets ==
    [k \in {"T", "g"} |-> IF k = "T" THEN {0, 1, 2, 3, 4, 5} ELSE {1, 3}]

\* A target for every axis, or for every axis but one.
SplineKwargs(axs) ==
    {kw \in KwargsOver(AxisNames(axs), SplineTargets) :
        Cardinality(DOMAIN kw) >= Len(axs) - 1 /\ DOMAIN kw # {}}

InitSpline ==
    /\ axes \in SplineAxes
    /\ \E m \in Modes : preload_arrays = m[1] /\ fileformat = m[2]
    /\ slice = NoSlice
    /\ values = [n \in Names |-> ArrMissing(ConstArr(axes, NaNVec))]
    /\ value_shapes = [n \in Names |-> "missing"]
    /\ value_indexes = [n \in Names |-> ArrMissing(ConstArr(axes, FALSE))]
    /\ store \in SplineFiles(axes)
    /\ hist = [n \in Names |-> "other"]
    /\ res = NoOp
    /\ top = NoTop
    /\ input_grid_index = NoGridIndex
    /\ output_grid_index = NoGridIndex
    /\ InitCompanions

NextSpline ==
    \/ LoadItems
    \/ \E n \in Names, f \in {"T", "g"}, kw \in SplineKwargs(axes) :
          InterpolateValueSpline(n, f, kw)

SpecSpline == InitSpline /\ [][NextSpline]_vars

-----------------------------------------------------------------------------
(* Claims: spline interpolation *)

\* The call names an axis as the free axis and gives a target for every axis.
IsSplineCall ==
    /\ res.op = "interpolate_value_spline"
    /\ res.free_param \in AxisNames(axes)
    /\ DOMAIN res.kwargs = AxisNames(axes)
    /\ value_indexes[res.name].st = "array"

\* The positions of the free axis whose grid point, the other axes at their
\* nearest position, is marked valid.
ValidAlongFree ==
    LET fd == AxisPos(res.free_param) IN
    {i \in 0..(AxisLen(axes[fd]) - 1) :
        MarkedValid(res.name,
            [d \in 1..Len(axes) |->
                IF d = fd THEN i
                ELSE AxisNearestIndex(axes[d], res.kwargs[axes[d].name])])}

FreeAxis == axes[AxisPos(res.free_param)]
FreeTarget == res.kwargs[res.free_param]

\* C12: interpolate_value_spline returns None when fewer than two points along
\* the free axis are valid, and when the target lies below the smallest or
\* above the largest axis value of the valid points; a value it returns is the
\* spline through the data stored at the valid points only.
C12_SplineNone ==
    IsSplineCall
        => LET V == ValidAlongFree
               fd == AxisPos(res.free_param)
               pt(j) == [d \in 1..Len(axes) |->
                           IF d = fd THEN j
                           ELSE AxisNearestIndex(axes[d], res.kwargs[axes[d].name])]
           IN  /\ Cardinality(V) < 2 => res.out.k = "none"
               /\ (\A i \in V : FreeTarget < AxisVal(FreeAxis, i)) => res.out.k = "none"
               /\ (\A i \in V : AxisVal(FreeAxis, i) < FreeTarget) => res.out.k = "none"
               /\ res.out.k = "value" =>
                     \A i \in 1..VecLen :
                        res.out.data.value[i]
                           = CubicSpline(FreeAxis, V,
                                 [j \in V |-> StoredAt(res.name, pt(j))[i]], FreeTarget)

\* C12 witness: None was returned for a target above the largest valid axis
\* value and inside the axis, with two valid points and one invalid point.
C12_Witness ==
    /\ IsSplineCall
    /\ res.out.k = "none"
    /\ Cardinality(ValidAlongFree) = 2
    /\ AxisLen(FreeAxis) = 3
    /\ \A i \in ValidAlongFree : AxisVal(FreeAxis, i) < FreeTarget
    /\ \E i \in 0..(AxisLen(FreeAxis) - 1) : FreeTarget <= AxisVal(FreeAxis, i)

\* C12 witness of the fit: a value was returned between two valid points with
\* an invalid point between them.
C12_Witness_Fit ==
    /\ IsSplineCall
    /\ res.out.k = "value"
    /\ ValidAlongFree = {0, 2}
    /\ AxisVal(FreeAxis, 0) < FreeTarget /\ FreeTarget < AxisVal(FreeAxis, 2)

\* C13: on an eager grid interpolate_value_spline returns no value for a
\* target exactly at the smallest or at the largest axis value of the valid
\* points.
C13_SplineEdgeIsNone ==
    (/\ IsSplineCall
     /\ preload_arrays
     /\ Cardinality(ValidAlongFree) >= 2
     /\ \/ \A i \in ValidAlongFree : FreeTarget <= AxisVal(FreeAxis, i)
        \/ \A i \in ValidAlongFree : AxisVal(FreeAxis, i) <= FreeTarget
     /\ \E i \in ValidAlongFree : FreeTarget = AxisVal(FreeAxis, i))
        => res.out.k # "value"

-----------------------------------------------------------------------------
(* Claims: failure policy of the interpolations *)

InterpolationOps ==
    {"interpolate_value_linear1d", "interpolate_value_linearNd", "interpolate_value_spline"}

\* C14: on an eager grid with the value array and its validity index in
\* memory, an interpolation that is given a target for every axis of the grid
\* returns a result or None and does not raise.
C14_NeverRaises ==
    (/\ res.op \in InterpolationOps
     /\ preload_arrays
     /\ values[res.name].st = "array"
     /\ value_indexes[res.name].st = "array"
     /\ DOMAIN res.kwargs = AxisNames(axes))
        => res.out.k \in {"value", "none"}

-----------------------------------------------------------------------------
(* Specification of the axis padding *)

MaxPadSize == 2
MaxPadValue == 4
MaxPadLen == 3

\* The strictly ascending value lists of an axis.
PadValueLists ==
    {v \in UNION {[1..n -> 0..MaxPadValue] : n \in 1..MaxPadLen} :
        \A k \in 1..(Len(v) - 1) : v[k] < v[k + 1]}

PadAxesSets ==
    {<<Axis("T", v)>> : v \in PadValueLists}
        \cup {<<Axis("T", v), Axis("g", w)>> : v \in PadValueLists, w \in {<<3>>, <<0, 2>>}}

InitPad == InitGrid(PadAxesSets, {<<TRUE, "h5">>}, {}, {})

NextPad == \E size \in 0..MaxPadSize : PadAxes(size)

SpecPad == InitPad /\ [][NextPad]_vars

-----------------------------------------------------------------------------
(* Claims: axis padding *)

\* C15: pad_axes with size >= 1 returns, for an axis with n > 1 values, an axis
\* of the same name with n + 2 * size values, the middle n equal to the
\* original values, the j-th value below the first at first - j * (second -
\* first) and the j-th value above the last at last + j * (last - last but
\* one); an axis with one value is returned as it is; [1, 2, 3] with size 1
\* gives [0, 1, 2, 3, 4]; the axes of the grid are as they were.
C15_PadAxes ==
    (res.op = "pad_axes" /\ res.size >= 1)
        => /\ res.out.k = "value"
           /\ axes = res.orig_axes
           /\ Len(res.out.data) = Len(axes)
           /\ \A d \in 1..Len(axes) :
                 LET v == axes[d].values
                     n == Len(v)
                     pa == res.out.data[d].values
                 IN  IF n = 1
                     THEN res.out.data[d] = axes[d]
                     ELSE /\ res.out.data[d].name = axes[d].name
                          /\ Len(pa) = n + 2 * res.size
                          /\ \A k \in 1..n : pa[res.size + k] = v[k]
                          /\ \A j \in 1..res.size :
                                /\ pa[res.size + 1 - j] = v[1] - j * (v[2] - v[1])
                                /\ pa[res.size + n + j] = v[n] + j * (v[n] - v[n - 1])
                          /\ (v = <<1, 2, 3>> /\ res.size = 1) => pa = <<0, 1, 2, 3, 4>>

\* C15 witness: [1, 2, 3] was padded by one to [0, 1, 2, 3, 4] next to an axis
\* with a single value.
C15_Witness ==
    /\ res.op = "pad_axes"
    /\ res.size = 1
    /\ Len(axes) = 2
    /\ axes[1].values = <<1, 2, 3>>
    /\ AxisLen(axes[2]) = 1
    /\ res.out.k = "value"
    /\ res.out.data[1].values = <<0, 1, 2, 3, 4>>
    /\ res.out.data[2] = axes[2]

-----------------------------------------------------------------------------
(* Claims: slice from command-line arguments *)

\* C16: a call of init_from_args whose arguments give zero or more than two
\* values for some axis raises and leaves the stored slice as it was; any other
\* call stores what get_slice_from_args returns: one entry per axis, in axis
\* order, the full range for an axis without argument, a position of the axis
\* for one value, and a slice within the axis for two values.
C16_SliceFromArgs ==
    [][res'.op = "init_from_args" =>
          LET args == res'.args
              given(d) == axes[d].name \in DOMAIN args
              n(d) == Len(args[axes[d].name])
          IN  IF \E d \in 1..Len(axes) : given(d) /\ n(d) \notin {1, 2}
              THEN /\ res'.out.k = "raise"
                   /\ slice' = slice
              ELSE /\ res'.out.k = "value"
                   /\ slice' = [set |-> TRUE, s |-> res'.out.data]
                   /\ Len(res'.out.data) = Len(axes)
                   /\ \A d \in 1..Len(axes) :
                         LET e == res'.out.data[d] IN
                         CASE ~given(d) -> e = FullE
                           [] n(d) = 1 -> e.k = "int" /\ InAxis(axes[d], e.lo)
                           [] OTHER -> /\ e.k = "slice"
                                       /\ 0 <= e.lo /\ e.hi <= AxisLen(axes[d])]_vars

\* C16 witness: a slice with a position for one axis and a range for another
\* is stored, and the next call, with three values for an axis, has raised and
\* left it in place.
C16_Witness ==
    /\ res.op = "init_from_args"
    /\ res.out.k = "raise"
    /\ \E k \in DOMAIN res.args : Len(res.args[k]) > 2
    /\ slice.set
    /\ \E d, e \in 1..Len(axes) : slice.s[d].k = "int" /\ slice.s[e].k = "slice"

-----------------------------------------------------------------------------
(* Specification of the index build *)

\* The vectors a file holds: one without and one with a NaN.
BuildVecs == {<<1, 2>>, <<3, NaN>>}

InitBuild == InitGrid(RWAxes, Modes, BuildVecs, RWFileIndexes)

NextBuild ==
    \/ \E n \in Names, sh \in {"none", "vec"} : InitValue(n, sh)
    \/ LoadItems
    \/ \E n \in Names, idx \in CallerIdx(axes), w \in WriteCalls :
          SetValueAt(n, idx, w.value, w.valid, w.s)
    \/ \E n \in Names, rebuild \in BOOLEAN : BuildValueIndex(n, rebuild)
    \/ \E rebuild \in BOOLEAN : BuildValueIndexes(rebuild)

SpecBuild == InitBuild /\ [][NextBuild]_vars

-----------------------------------------------------------------------------
(* Claims: building the validity index *)

\* The names build_value_indexes visits.
DeclaredNames == {n \in Names : values[n].st # "missing"}

\* The names a build call was about.
BuiltNames == IF res.op = "build_value_index" THEN {res.name} ELSE DeclaredNames

C17_Witness_Lazy ==
    /\ res.op \in {"build_value_index", "build_value_indexes"}
    /\ res.rebuild /\ ~preload_arrays
    /\ res.out.k = "raise"
    /\ \E n \in BuiltNames : value_indexes[n].st = "array"

-----------------------------------------------------------------------------
(* Claims: storage-mode mismatch *)

\* C18: on a lazy grid whose file format is not 'h5', set_value_at and
\* get_value_at raise: they return neither a value nor None.
C18_MismatchRaises ==
    (/\ ~preload_arrays
     /\ fileformat # "h5"
     /\ res.op \in {"set_value_at", "get_value_at"})
        => res.out.k = "raise"

-----------------------------------------------------------------------------
(* Specification of the GridBuilder *)

MaxTop == 3

\* The values of --top: not given, or an integer.
TopArgs == {NoTop} \cup {TopOf(n) : n \in (-1)..MaxTop}

BuilderAxes == {<<AxT>>, <<AxT2, AxG>>}

\* Range filters on the command line: none, one value, two values.
BuilderArgLists ==
    [k \in {"T", "g"} |-> IF k = "T" THEN {<<10>>, <<10, 20>>, <<20, 40>>} ELSE {<<3>>}]

BuilderArgs(axs) ==
    UNION {{f \in [D -> UNION {BuilderArgLists[k] : k \in D}] :
               \A k \in D : f[k] \in BuilderArgLists[k]} : D \in SUBSET AxisNames(axs)}

InitBuilder ==
    InitGrid(BuilderAxes, {<<TRUE, "h5">>, <<FALSE, "h5">>}, {<<1, 2>>},
             [GridPoints(axes) -> BOOLEAN])

NextBuilder ==
    \/ \E arg \in TopArgs : ParseArgs(arg)
    \/ \E args \in BuilderArgs(axes) : OpenData(args)
    \/ GetInputCount

SpecBuilder == InitBuilder /\ [][NextBuilder]_vars

-----------------------------------------------------------------------------
(* Claims: GridBuilder *)

\* The number of grid points of the input grid that are marked valid.
ValidInputPoints == Cardinality({p \in GridPoints(axes) : MarkedValid("flux", p)})

\* C19: after open_data on a grid with the validity index of 'flux' in memory,
\* get_input_count returns the number of valid input grid points when top is
\* not set and the smaller of top and that number when it is; the result is
\* never negative and never above the number of valid points.
C19_InputCount ==
    (/\ res.op = "get_input_count"
     /\ input_grid_index.set
     /\ value_indexes["flux"].st = "array")
        => /\ res.out.k = "value"
           /\ 0 <= res.out.data
           /\ res.out.data <= ValidInputPoints
           /\ ~top.set => res.out.data = ValidInputPoints
           /\ top.set => res.out.data = (IF top.n < ValidInputPoints THEN top.n
                                         ELSE ValidInputPoints)

\* C20: after open_data with an active slice, input_grid_index lists exactly
\* the valid grid points inside the slice, in the coordinates of the full
\* grid, and output_grid_index lists the same points in the coordinates of the
\* sliced grid, with as many columns; no valid point outside the slice is in
\* either.
C20_IndexesWithinSlice ==
    (/\ res.op = "open_data"
     /\ res.out.k = "ok"
     /\ slice.set
     /\ value_indexes["flux"].st = "array")
        => LET inside == {p \in Sel(axes, slice.s) : MarkedValid("flux", p)} IN
           /\ input_grid_index.set /\ output_grid_index.set
           /\ Len(input_grid_index.cols) = Len(output_grid_index.cols)
           /\ {input_grid_index.cols[k] : k \in 1..Len(input_grid_index.cols)} = inside
           /\ Len(input_grid_index.cols) = Cardinality(inside)
           /\ output_grid_index.cols =
                  np_where(SubArray(value_indexes["flux"].a, slice.s))

-----------------------------------------------------------------------------
(* FluxConservingResampler *)

RECURSIVE SeqSum(_)
\* The sum of the entries of a sequence.
SeqSum(s) == IF s = <<>> THEN 0 ELSE Head(s) + SeqSum(Tail(s))

\* np.diff(e)
np_diff(e) == [i \in 1..(Len(e) - 1) |-> e[i + 1] - e[i]]

\* np.cumsum(s)
np_cumsum(s) == [i \in 1..Len(s) |-> SeqSum(SubSeq(s, 1, i))]

\* The centres of the bins between the edges e.
BinCentres(e) == [i \in 1..(Len(e) - 1) |-> (e[i] + e[i + 1]) \div 2]

\* Mutant: the cumulative sum of the values, without the bin widths.
cumulative_flux_unweighted(wave_edges, value) ==
    LET c == np_cumsum(value)
    IN  [i \in 1..Len(wave_edges) |-> IF i = 1 THEN 0 ELSE c[i - 1]]

\* resample_value, lines 25-27: cs[0] = 0, cs[1:] = cumsum(value * diff(edges)).
cumulative_flux(wave_edges, value) ==
    LET w == np_diff(wave_edges)
        c == np_cumsum([i \in 1..Len(value) |-> value[i] * w[i]])
    IN  [i \in 1..Len(wave_edges) |-> IF i = 1 THEN 0 ELSE c[i - 1]]

\* interp1d(x, y, bounds_error=False, fill_value=(0, y[-1]), kind='linear')
\* at t: 0 below the range, y[-1] above it, the chord of the bracketing pair
\* of nodes within.
interp1d_linear(x, y, t) ==
    IF t < x[1] THEN Frac(0, 1)
    ELSE IF t > x[Len(x)] THEN Frac(y[Len(y)], 1)
    ELSE LET i == CHOOSE i \in 1..(Len(x) - 1) :
                     /\ x[i] <= t /\ t <= x[i + 1]
                     /\ \A j \in 1..(i - 1) : ~(x[j] <= t /\ t <= x[j + 1])
         IN  Frac(y[i] * (x[i + 1] - x[i]) + (t - x[i]) * (y[i + 1] - y[i]),
                  x[i + 1] - x[i])

\* The difference of two fractions, and a fraction divided by an integer.
FracSub(a, b) == Frac(a.num * b.den - b.num * a.den, a.den * b.den)
FracDiv(a, n) == IF n = 0 THEN RNaN ELSE Frac(a.num, a.den * n)

\* interp1d(x, y, kind='nearest', assume_sorted=True) at t, x in 1-based
\* positions: searchsorted of t in the midpoints of x, side='left', so a tie
\* goes to the lower node.
interp1d_nearest(x, y, t) ==
    y[1 + Cardinality({i \in 1..(Len(x) - 1) : x[i] + x[i + 1] < 2 * t})]

\* resample_value, lines 20-31: the resampled values, line 31.
resample_flux(wave_edges, value) ==
    LET cs == cumulative_flux(wave_edges, value)
        te == target_wave_edges.v
        ip(x) == interp1d_linear(wave_edges, cs, x)
    IN  [j \in 1..(Len(te) - 1) |->
            FracDiv(FracSub(ip(te[j + 1]), ip(te[j])), te[j + 1] - te[j])]

\* resample_value(wave, wave_edges, value, error) of a resampler of kind
\* 'linear', with the edges of line 18; value and error are [set, v].
resample_value(wave, wave_edges, value, error) ==
    CASE value.set /\ ~target_wave_edges.set -> Raise("TypeError")
      [] value.set /\ Len(value.v) # Len(wave_edges) - 1 -> Raise("ValueError")
      [] error.set /\ ~target_wave.set -> Raise("TypeError")
      [] error.set /\ Len(error.v) # Len(wave) -> Raise("ValueError")
      [] error.set /\ \E j \in 1..Len(target_wave.v) :
                         \/ target_wave.v[j] < wave[1]
                         \/ target_wave.v[j] > wave[Len(wave)] -> Raise("ValueError")
      [] OTHER ->
           RetValue([value |-> IF value.set
                               THEN WaveOf(resample_flux(wave_edges, value.v))
                               ELSE NoWave,
                     error |-> IF error.set
                               THEN WaveOf([j \in 1..Len(target_wave.v) |->
                                              interp1d_nearest(wave, error.v,
                                                               target_wave.v[j])])
                               ELSE NoWave])

\* Resampler.find_wave_edges(wave): some edges that have the centres wave.
find_wave_edges(wave, candidates) == {e \in candidates : BinCentres(e) = wave}

-----------------------------------------------------------------------------
(* Actions: Resampler *)

\* init(wave, wave_edges): caches the target grid.
ResamplerInit(wave, wave_edges) ==
    /\ target_wave' = WaveOf(wave)
    /\ target_wave_edges' = WaveOf(wave_edges)
    /\ res' = [op |-> "init", wave |-> wave, wave_edges |-> wave_edges, out |-> RetOk]
    /\ UNCHANGED <<other, par, gridbuilder, axes, preload_arrays, fileformat, slice, values,
                   value_shapes, value_indexes, store, hist>>

\* reset(): clears the cached target grid.
ResamplerReset ==
    /\ target_wave' = NoWave
    /\ target_wave_edges' = NoWave
    /\ res' = [op |-> "reset", out |-> RetOk]
    /\ UNCHANGED <<other, par, gridbuilder, axes, preload_arrays, fileformat, slice, values,
                   value_shapes, value_indexes, store, hist>>

\* resample_value(wave, wave_edges, value, error); edges is wave_edges after
\* line 18.
ResampleValue(wave, wave_edges, edges, value, error) ==
    /\ res' = [op |-> "resample_value", wave |-> wave, wave_edges |-> wave_edges,
               edges |-> edges, value |-> value, error |-> error,
               out |-> resample_value(wave, edges, value, error)]
    /\ UNCHANGED <<companions, gridbuilder, axes, preload_arrays, fileformat, slice,
                   values, value_shapes, value_indexes, store, hist>>

-----------------------------------------------------------------------------
(* Specification of the resampler *)

\* The largest source value, and the source bin edges: uniform and
\* non-uniform bins.
MaxFlux == 2
SourceEdges == {<<2, 4, 6, 8, 10>>, <<2, 4, 8, 10, 14>>, <<2, 6, 8>>}

\* Every other edge of e.
Coarsen(e) == [j \in 1..((Len(e) + 1) \div 2) |-> e[2 * j - 1]]

\* Target edges: coarsenings, the source edges themselves, edges between the
\* source edges and edges beyond them.
TargetEdges ==
    {Coarsen(e) : e \in SourceEdges} \cup SourceEdges
        \cup {<<4, 6, 10>>, <<0, 6, 12>>, <<2, 8, 16>>}

\* Source values: None, and the profiles (a + b * i) mod (MaxFlux + 1).
SourceValues(n) ==
    {NoWave} \cup {WaveOf([i \in 1..n |-> (a + b * i) % (MaxFlux + 1)]) :
                      a \in 0..MaxFlux, b \in 0..MaxFlux}
SourceErrors(n) == {NoWave, WaveOf([i \in 1..n |-> i])}

InitResample == InitGrid({<<AxT>>}, {<<TRUE, "h5">>}, {}, {})

NextResample ==
    \/ \E e \in TargetEdges : ResamplerInit(BinCentres(e), e)
    \/ ResamplerReset
    \/ \E e \in SourceEdges, given \in BOOLEAN :
         \E value \in SourceValues(Len(e) - 1), error \in SourceErrors(Len(e) - 1),
            found \in IF given THEN {e} ELSE find_wave_edges(BinCentres(e), SourceEdges) :
               ResampleValue(BinCentres(e), IF given THEN WaveOf(e) ELSE NoWave,
                             found, value, error)

SpecResample == InitResample /\ [][NextResample]_vars

-----------------------------------------------------------------------------
(* Claims: flux-conserving resampling *)

\* A resample_value call that returned resampled values for target edges that
\* are every other edge of the source edges.
IsCoarsenedResample ==
    /\ res.op = "resample_value"
    /\ res.out.k = "value"
    /\ res.value.set
    /\ target_wave_edges.set
    /\ Len(res.edges) % 2 = 1
    /\ target_wave_edges.v = Coarsen(res.edges)

\* The value times the bin width, summed over the source bins 2j-1 and 2j.
SourceIntegral(j) ==
    LET w == np_diff(res.edges) IN
    res.value.v[2 * j - 1] * w[2 * j - 1] + res.value.v[2 * j] * w[2 * j]

\* The integral over all source bins.
SourceTotal ==
    LET w == np_diff(res.edges) IN
    SeqSum([i \in 1..Len(res.value.v) |-> res.value.v[i] * w[i]])

\* C21: with target edges that are every other source edge, each target bin's
\* resampled value times its width equals the summed value times width of the
\* two source bins it covers, and the sums over all bins agree.
C21_FluxConserved ==
    IsCoarsenedResample =>
        LET out == res.out.data.value.v
            tw == np_diff(target_wave_edges.v)
        IN  /\ Len(out) = Len(tw)
            /\ \A j \in 1..Len(out) :
                  /\ ~out[j].nan
                  /\ out[j].num * tw[j] = SourceIntegral(j) * out[j].den
            /\ SeqSum([j \in 1..Len(out) |-> SourceIntegral(j)]) = SourceTotal

\* Reached: a coarsened resampling of non-uniform source bins with values that
\* differ from bin to bin.
C21_Witness ==
    /\ IsCoarsenedResample
    /\ res.edges = <<2, 4, 8, 10, 14>>
    /\ res.value.v[1] # res.value.v[2]
    /\ res.out.data.value.v[1].num # 0

\* C22: after init, resample_value returns a value array and an error array
\* with one entry per target bin each; a None value gives a None value and a
\* None error gives a None error, independently of each other.
C22_ResampledShapes ==
    (res.op = "resample_value" /\ target_wave.set /\ target_wave_edges.set)
        => /\ res.out.k = "value"
           /\ res.out.data.value.set = res.value.set
           /\ res.out.data.error.set = res.error.set
           /\ res.value.set => Len(res.out.data.value.v) = Len(target_wave.v)
           /\ res.error.set => Len(res.out.data.error.v) = Len(target_wave.v)

-----------------------------------------------------------------------------
(* A second instance of ArrayGrid *)

\* ArrayGrid(orig=grid) for of_orig = TRUE, lines 31-36: the new instance
\* takes the storage mode and the slice of the grid and refers to the same
\* values, value_shapes and value_indexes dictionaries; ArrayGrid() for
\* of_orig = FALSE, lines 38-43: empty dictionaries of its own.
ArrayGrid_init(of_orig) ==
    [made |-> TRUE, of_orig |-> of_orig,
     preload_arrays |-> IF of_orig THEN preload_arrays ELSE FALSE,
     slice |-> IF of_orig THEN slice ELSE NoSlice]

\* The dictionaries seen through the second instance.
other_values ==
    IF other.of_orig THEN values
    ELSE [n \in Names |-> ArrMissing(ConstArr(axes, NaNVec))]
other_value_indexes ==
    IF other.of_orig THEN value_indexes
    ELSE [n \in Names |-> ArrMissing(ConstArr(axes, FALSE))]

Construct(of_orig) ==
    /\ other' = ArrayGrid_init(of_orig)
    /\ res' = [op |-> "ArrayGrid", of_orig |-> of_orig, out |-> RetOk]
    /\ UNCHANGED <<resampler, par, gridbuilder, axes, preload_arrays, fileformat, slice,
                   values, value_shapes, value_indexes, store, hist>>

-----------------------------------------------------------------------------
(* Specification of two instances *)

NextOwner ==
    \/ \E of_orig \in BOOLEAN : Construct(of_orig)
    \/ \E n \in Names, sh \in {"none", "vec"} : InitValue(n, sh)
    \/ \E n \in Names, idx \in CallerIdx(axes), w \in WriteCalls :
          SetValueAt(n, idx, w.value, w.valid, w.s)

SpecOwner == Init /\ [][NextOwner]_vars

-----------------------------------------------------------------------------
(* Claims: ownership *)

\* C23: a set_value_at or init_value call on the grid leaves the values and
\* the validity indexes seen through every other instance unchanged, an
\* instance constructed from the grid with orig= included.
C23_InstancesIndependent ==
    [][(other.made /\ res'.op \in {"set_value_at", "init_value"})
          => /\ other_values' = other_values
             /\ other_value_indexes' = other_value_indexes]_vars

-----------------------------------------------------------------------------
(* Claims: the positions a slice from arguments selects *)

\* The positions of axis d with a value between lo and hi, and below lo.
PositionsWithin(d, lo, hi) ==
    {i \in 0..(AxisLen(axes[d]) - 1) :
        lo <= AxisVal(axes[d], i) /\ AxisVal(axes[d], i) <= hi}
PositionsBelow(d, lo) ==
    {i \in 0..(AxisLen(axes[d]) - 1) : AxisVal(axes[d], i) < lo}

\* The positions an entry of a slice selects.
PositionsOf(e) == e.lo..(e.hi - 1)

\* C24: for a range argument [lo, hi] with lo <= hi the derived slice starts
\* at a position >= 0, selects every position with a value in [lo, hi], none
\* with a value above hi and at most one with a value below lo; for a
\* one-value argument the position is that of the largest axis value not above
\* the argument, or 0 when the argument is below every axis value.
C24_SliceSelects ==
    (res.op = "init_from_args" /\ res.out.k = "value") =>
        \A d \in 1..Len(axes) :
            axes[d].name \in DOMAIN res.args =>
                LET a == res.args[axes[d].name]
                    e == res.out.data[d]
                IN  IF Len(a) = 2
                    THEN a[1] <= a[2] =>
                           /\ e.k = "slice"
                           /\ e.lo >= 0
                           /\ PositionsWithin(d, a[1], a[2]) \subseteq PositionsOf(e)
                           /\ \A i \in PositionsOf(e) :
                                 InAxis(axes[d], i) /\ AxisVal(axes[d], i) <= a[2]
                           /\ Cardinality(PositionsOf(e) \cap PositionsBelow(d, a[1])) <= 1
                    ELSE /\ e.k = "int"
                         /\ LET below == {i \in 0..(AxisLen(axes[d]) - 1) :
                                             AxisVal(axes[d], i) <= a[1]}
                            IN  IF below = {} THEN e.lo = 0
                                ELSE /\ e.lo \in below
                                     /\ \A i \in below :
                                           AxisVal(axes[d], i) <= AxisVal(axes[d], e.lo)

\* C24 witnesses: a range that starts between two axis values, so that one
\* position below lo is selected with the positions inside the range; a range
\* and a single value below every axis value, both clipped to position 0.
C24_Witness ==
    /\ res.op = "init_from_args"
    /\ res.out.k = "value"
    /\ "T" \in DOMAIN res.args
    /\ res.args["T"] = <<15, 50>>
    /\ \E d \in 1..Len(axes) :
          /\ axes[d].name = "T"
          /\ PositionsOf(res.out.data[d]) \cap PositionsBelow(d, 15) # {}
          /\ PositionsWithin(d, 15, 50) # {}
C24_Witness_Below ==
    /\ res.op = "init_from_args"
    /\ res.out.k = "value"
    /\ "T" \in DOMAIN res.args
    /\ res.args["T"] \in {<<5>>, <<5, 15>>}
    /\ \E d \in 1..Len(axes) : axes[d].name = "T" /\ res.out.data[d].lo = 0

-----------------------------------------------------------------------------
(* set_values_at and set_values *)

\* The value an assignment values[name][idx] = value stores in a slice when
\* value has a single entry: numpy broadcasts it over the trailing dimension.
Broadcast(value) ==
    IF Len(value) = 1 THEN [i \in 1..VecLen |-> value[1]] ELSE value

\* The validity flag that arrives in set_value_at when set_values_at passes s
\* as the fourth positional argument (line 304): None stays None; a slice
\* object is stored in the boolean index as its truth value, or the store
\* raises (obj = "raise").
ValidOfS(s, obj) == IF s.k = "none" THEN "none" ELSE obj

\* set_values_at(idx, values, s), lines 302-304, for the one name of values:
\* set_value_at(name, idx, values[name], s) binds s to valid and leaves the
\* trailing slice None.
set_values_at(idx, vals, s, obj) ==
    LET name == CHOOSE n \in DOMAIN vals : TRUE IN
    IF ValidOfS(s, obj) = "raise" /\ ~ensure_lazy_load_raises /\ has_value_index(name)
    THEN [out |-> Raise("TypeError"), vi |-> value_indexes, vals |-> values,
          st |-> store]
    ELSE set_value_at(name, idx, Broadcast(vals[name]),
                      IF ValidOfS(s, obj) = "raise" THEN "none" ELSE ValidOfS(s, obj),
                      NoS)

\* set_values(values, s, **kwargs), lines 298-300.
set_values(vals, s, kwargs, obj) ==
    LET i == get_index(kwargs) IN
    IF i.k = "raise"
    THEN [out |-> i, vi |-> value_indexes, vals |-> values, st |-> store]
    ELSE set_values_at(i.data, vals, s, obj)

SetValuesAt(idx, vals, s, obj) ==
    LET r == set_values_at(idx, vals, s, obj) IN
    /\ value_indexes' = r.vi
    /\ values' = r.vals
    /\ store' = r.st
    /\ hist' = [n \in Names |-> IF hist[n] = "plain" THEN "any" ELSE hist[n]]
    /\ res' = [op |-> "set_values_at", idx |-> idx, vals |-> vals, s |-> s,
               out |-> r.out]
    /\ UNCHANGED <<companions, gridbuilder, axes, preload_arrays, fileformat, slice,
                   value_shapes>>

SetValues(vals, s, kwargs, obj) ==
    LET r == set_values(vals, s, kwargs, obj) IN
    /\ value_indexes' = r.vi
    /\ values' = r.vals
    /\ store' = r.st
    /\ hist' = [n \in Names |-> IF hist[n] = "plain" THEN "any" ELSE hist[n]]
    /\ res' = [op |-> "set_values", kwargs |-> kwargs, vals |-> vals, s |-> s,
               out |-> r.out]
    /\ UNCHANGED <<companions, gridbuilder, axes, preload_arrays, fileformat, slice,
                   value_shapes>>

-----------------------------------------------------------------------------
(* Specification of the writes of several values *)

\* The calls: whole slices with s = None, a part with a trailing slice.
ValuesCalls ==
    {[vals |-> [n \in Names |-> <<1, 2>>], s |-> NoS],
     [vals |-> [n \in Names |-> <<3, NaN>>], s |-> NoS],
     [vals |-> [n \in Names |-> <<5>>], s |-> PartS],
     [vals |-> [n \in Names |-> <<NaN>>], s |-> PartS]}

NextValues ==
    \/ \E n \in Names, sh \in {"none", "vec"} : InitValue(n, sh)
    \/ LoadItems
    \/ \E idx \in CallerIdx(axes), w \in ValuesCalls, obj \in {"T", "raise"} :
          SetValuesAt(idx, w.vals, w.s, obj)
    \/ \E kw \in RWKwargs, w \in ValuesCalls, obj \in {"T", "raise"} :
          SetValues(w.vals, w.s, kw, obj)

SpecValues == Init /\ [][NextValues]_vars

-----------------------------------------------------------------------------
(* Claims: writes of several values *)

\* C25: set_values_at(idx, values, s) and set_values(values, s, **coords) do
\* what set_value_at(name, idx, values[name], valid=None, s=s) does for the
\* name in values: s is the trailing slice of the write and the validity
\* stored is the one the predicate gives for the written value.  Stated for
\* the eager grid, whose writes are assignments to the arrays in memory.
C25_SetValuesAsSetValueAt ==
    [][(res'.op \in {"set_values_at", "set_values"} /\ res'.out.k # "raise"
           /\ preload_arrays
           /\ (res'.op = "set_values" => get_index(res'.kwargs).k = "value"))
          => LET idx == IF res'.op = "set_values" THEN get_index(res'.kwargs).data
                        ELSE res'.idx
                 r == set_value_at("flux", idx, res'.vals["flux"], "none", res'.s)
             IN  /\ r.out = res'.out
                 /\ values' = r.vals
                 /\ value_indexes' = r.vi
                 /\ store' = r.st]_vars

-----------------------------------------------------------------------------
(* Claims: linear interpolation at the edges and at the nodes of the grid *)

LinearOps == {"interpolate_value_linear1d", "interpolate_value_linearNd"}

\* A linear interpolation that was given a target for every axis of the grid.
IsLinearCall ==
    res.op \in LinearOps /\ DOMAIN res.kwargs = AxisNames(axes)

\* C26: a target on the largest value of an axis with more than one value is
\* bracketed as (last, last + 1), get_nearby_indexes returns None for it and
\* the linear interpolations return no result; a target on the smallest value
\* is bracketed as (0, 1), and on a one-axis eager grid with both bracketing
\* points valid interpolate_value_linear1d returns a value for it.
C26_UpperEdgeNone ==
    IsLinearCall =>
        \A d \in 1..Len(axes) :
            AxisLen(axes[d]) > 1 =>
                LET v == res.kwargs[axes[d].name]
                    last == AxisLen(axes[d]) - 1
                IN  /\ v = AxisVal(axes[d], last) =>
                          /\ nearby_bracket(axes[d], v) = <<last, last + 1>>
                          /\ get_nearby_indexes(res.kwargs) = RetNone
                          /\ res.out = RetNone
                    /\ v = AxisVal(axes[d], 0) =>
                          /\ nearby_bracket(axes[d], v) = <<0, 1>>
                          /\ (/\ Len(axes) = 1
                              /\ res.op = "interpolate_value_linear1d"
                              /\ preload_arrays
                              /\ values[res.name].st = "array"
                              /\ value_indexes[res.name].st = "array"
                              /\ MarkedValid(res.name, <<0>>)
                              /\ MarkedValid(res.name, <<1>>))
                                => res.out.k = "value"

\* C26 witnesses: no result on the largest value of the axis although every
\* grid point is valid; a value on the smallest value of the axis.
C26_Witness ==
    /\ IsLinearCall
    /\ \E d \in 1..Len(axes) :
          /\ AxisLen(axes[d]) > 1
          /\ res.kwargs[axes[d].name] = AxisVal(axes[d], AxisLen(axes[d]) - 1)
    /\ value_indexes[res.name].st = "array"
    /\ \A p \in GridPoints(axes) : MarkedValid(res.name, p)
    /\ res.out = RetNone
C26_Witness_Lower ==
    /\ IsLinearCall
    /\ \A d \in 1..Len(axes) : res.kwargs[axes[d].name] = AxisVal(axes[d], 0)
    /\ \E d \in 1..Len(axes) : AxisLen(axes[d]) > 1
    /\ res.out.k = "value"

\* The grid point whose axis values are the targets, when there is one.
NodesOf(kwargs) ==
    {p \in GridPoints(axes) :
        \A d \in 1..Len(axes) : AxisVal(axes[d], p[d]) = kwargs[axes[d].name]}

\* An interpolated entry equals a stored entry.
SameEntry(r, x) ==
    IF IsNaN(x) THEN r.nan ELSE ~r.nan /\ r.num = x * r.den

\* C27: when a linear interpolation returns a result for a target that lies
\* on a valid grid point, the returned value is the value stored at that
\* point and the returned parameters are the requested ones.
C27_ReproducesNodes ==
    (/\ IsLinearCall
     /\ res.out.k = "value"
     /\ value_indexes[res.name].st = "array")
        => \A p \in NodesOf(res.kwargs) :
              MarkedValid(res.name, p) =>
                 /\ res.out.data.params = res.kwargs
                 /\ \A i \in 1..VecLen :
                       SameEntry(res.out.data.value[i], StoredAt(res.name, p)[i])

\* C27, amended: the same for every entry of the value whose stored entries
\* at the corners of the bracketing hypercube are all numbers, for
\* interpolate_value_linear1d along an axis with more than one value.
C27_ReproducesNodes_Amended ==
    (/\ IsLinearCall
     /\ res.out.k = "value"
     /\ value_indexes[res.name].st = "array"
     /\ res.op = "interpolate_value_linear1d" => AxisLen(axes[1]) > 1)
        => \A p \in NodesOf(res.kwargs) :
              MarkedValid(res.name, p) =>
                 /\ res.out.data.params = res.kwargs
                 /\ \A i \in 1..VecLen :
                       (\A q \in Hypercube(res.kwargs) : ~IsNaN(StoredAt(res.name, q)[i]))
                          => SameEntry(res.out.data.value[i], StoredAt(res.name, p)[i])

\* C27 witnesses: a result on a valid node of a grid with two axes of two
\* values, and on a valid node of a one-axis grid, with a different number in
\* the first entry of another corner of the hypercube.
C27_Witness ==
    /\ IsLinearCall
    /\ res.op = "interpolate_value_linearNd"
    /\ res.out.k = "value"
    /\ value_indexes[res.name].st = "array"
    /\ \A d \in 1..Len(axes) : AxisLen(axes[d]) > 1
    /\ \E p \in NodesOf(res.kwargs) :
          /\ MarkedValid(res.name, p)
          /\ \A q \in Hypercube(res.kwargs) : ~IsNaN(StoredAt(res.name, q)[1])
          /\ \E q \in Hypercube(res.kwargs) :
                StoredAt(res.name, q)[1] # StoredAt(res.name, p)[1]
C27_Witness_1d ==
    /\ IsLinearCall
    /\ res.op = "interpolate_value_linear1d"
    /\ Len(axes) = 1
    /\ res.out.k = "value"
    /\ value_indexes[res.name].st = "array"
    /\ \E p \in NodesOf(res.kwargs) :
          /\ MarkedValid(res.name, p)
          /\ \E q \in Hypercube(res.kwargs) :
                StoredAt(res.name, q)[1] # StoredAt(res.name, p)[1]

-----------------------------------------------------------------------------
(* Claims: storage-mode equivalence *)

\* What an eager grid returns for a get_value_at that directly follows a
\* completed whole-slice set_value_at at the same single grid point: the value
\* written when the flag stored with it is true, None otherwise.
EagerReadAfterWrite ==
    IF ValidFlag(res.name, res.after[1].value, res.after[1].valid)
    THEN RetValue([p \in {PointOf(res.idx)} |-> res.after[1].value])
    ELSE RetNone

\* C28: on an eager grid and on a lazy grid on h5 alike, a get_value_at that
\* follows a set_value_at at the same grid point returns what the eager grid
\* returns: the validity flag the write stored is the one the read sees.
C28_ModesAgree ==
    (IsRoundTrip /\ (preload_arrays \/ fileformat = "h5"))
        => res.out = EagerReadAfterWrite

-----------------------------------------------------------------------------
(* Reads of the grid *)

\* get_mask_unsliced(): true inside the active slice, everywhere without one.
get_mask_unsliced ==
    [p \in GridPoints(axes) |-> IF slice.set THEN p \in Sel(axes, slice.s) ELSE TRUE]

ReadValueAt(name, idx, s) ==
    Query([op |-> "get_value_at", name |-> name, idx |-> idx, s |-> s,
           out |-> get_value_at(name, idx, s), after |-> WriteBefore(name, idx)])

HasValueAt(name, idx, mode) ==
    Query([op |-> "has_value_at", name |-> name, idx |-> idx, mode |-> mode,
           out |-> has_value_at(name, idx, mode)])

GetValueIndex(name, s) ==
    Query([op |-> "get_value_index", name |-> name, s |-> s,
           out |-> get_value_index(name, s)])

GetValueIndexUnsliced(name, s) ==
    Query([op |-> "get_value_index_unsliced", name |-> name, s |-> s,
           out |-> get_value_index_unsliced(name, s)])

GetMaskUnsliced ==
    Query([op |-> "get_mask_unsliced", out |-> RetValue(get_mask_unsliced)])

-----------------------------------------------------------------------------
(* Specification of the reads among writes *)

\* A target for the axis of the grid.
ReadKwargs == {kw \in RWKwargs : DOMAIN kw = {"T"}}

\* The slices given to the index getters.
ReadSlices == {[set |-> TRUE, s |-> <<SliceE(0, 1)>>], [set |-> TRUE, s |-> <<IntE(1)>>]}

NextRead ==
    \/ \E n \in Names : InitValue(n, "vec")
    \/ LoadItems
    \/ \E n \in Names, idx \in CallerIdx(axes) :
          SetValueAt(n, idx, <<1, 2>>, "none", NoS)
    \/ InitFromArgs([k \in {"T"} |-> <<10>>])
    \/ \E kw \in ReadKwargs : GetIndex(kw)
    \/ \E kw \in ReadKwargs : GetNearestIndex(kw)
    \/ \E kw \in ReadKwargs : GetNearbyIndexes(kw)
    \/ \E n \in Names, idx \in CallerIdx(axes) : HasValueAt(n, idx, "any")
    \/ \E n \in Names, idx \in CallerIdx(axes) : ReadValueAt(n, idx, NoS)
    \/ \E n \in Names, s \in ReadSlices \cup {NoSlice} : GetValueIndex(n, s)
    \/ \E n \in Names, s \in ReadSlices : GetValueIndexUnsliced(n, s)
    \/ GetMaskUnsliced
    \/ \E n \in Names, kw \in ReadKwargs : InterpolateValueLinear1d(n, kw)
    \/ \E n \in Names, kw \in ReadKwargs : InterpolateValueLinearNd(n, kw)
    \/ \E n \in Names, kw \in ReadKwargs : InterpolateValueSpline(n, "T", kw)

SpecRead == Init /\ [][NextRead]_vars

-----------------------------------------------------------------------------
(* Claims: reads leave the grid unchanged *)

ReadOnlyOps ==
    {"get_index", "get_nearest_index", "get_nearby_indexes", "has_value_at",
     "get_value_at", "get_value_index", "get_value_index_unsliced",
     "get_mask_unsliced", "interpolate_value_linear1d", "interpolate_value_linearNd",
     "interpolate_value_spline"}

\* C29: a call of a read-only operation leaves the values, the validity
\* indexes, the value shapes, the axes and the active slice of the grid as
\* they were, whether it returns a result, returns None or raises.
C29_ReadsLeaveGrid ==
    [][res'.op \in ReadOnlyOps
          => UNCHANGED <<values, value_indexes, value_shapes, axes, slice>>]_vars

\* C29 witnesses: a lazy read that took its result from the storage; a read
\* that raised; an interpolation that returned None with a slice active.
C29_Witness ==
    /\ res.op = "get_value_at"
    /\ ~preload_arrays
    /\ res.out.k = "value"
C29_Witness_Raise ==
    /\ res.op \in ReadOnlyOps
    /\ res.op # "has_value_at"
    /\ res.out.k = "raise"
C29_Witness_None ==
    /\ res.op \in {"interpolate_value_linear1d", "interpolate_value_spline"}
    /\ res.out.k = "none"
    /\ slice.set

-----------------------------------------------------------------------------
(* Parameter and ParameterSampler *)

\* init_from_args, lines 38-44: the fields after one or two values.
parameter_range(p, vals) ==
    CASE Len(vals) = 1 ->
           [p EXCEPT !.value = Num(vals[1]), !.min = Num(vals[1]), !.max = Num(vals[1])]
      [] OTHER ->
           [p EXCEPT !.min = Num(vals[1]), !.max = Num(vals[2])]

\* Parameter.init_from_args(args); args is [values, dist] with options
\* [set, v]: the outcome and the parameter after the call.
parameter_init_from_args(p, args) ==
    IF args.values.set /\ Len(args.values.v) \notin {1, 2}
    THEN [out |-> Raise("ValueError"), par |-> p]
    ELSE LET q == IF args.values.set THEN parameter_range(p, args.values.v) ELSE p
             r == [q EXCEPT !.ranged =
                      IF args.values.set
                      THEN Len(args.values.v) = 1 \/ args.values.v[1] <= args.values.v[2]
                      ELSE @]
         IN  [out |-> RetOk,
              par |-> CASE r.min.set /\ r.max.set /\ r.min.n = r.max.n ->
                             [r EXCEPT !.dist = "const"]
                        [] args.dist.set -> [r EXCEPT !.dist = args.dist.v]
                        [] OTHER -> r]

\* draw_random_param(par) for one pass of the loop of lines 55-59: has_dist
\* tells whether get_random_dist returned a distribution, u / den is what the
\* distribution gave and k what np.random.randint gave.  The outcome "again"
\* is a rejected sample: the loop goes on.
draw_random_param(p, has_dist, u, den, k) ==
    CASE p.dist = "const" -> IF p.value.set THEN RetValue(Frac(p.value.n, 1)) ELSE RetNone
      [] p.dist = "int" ->
           CASE ~p.min.set \/ ~p.max.set -> Raise("TypeError")
             [] p.min.n >= p.max.n -> Raise("ValueError")
             [] OTHER -> RetValue(Frac(p.min.n + (k % (p.max.n - p.min.n)), 1))
      [] ~has_dist -> RetNone
      [] ~p.min.set \/ ~p.max.set -> Raise("TypeError")
      [] OTHER ->
           LET r == Frac(p.min.n * den + u * (p.max.n - p.min.n), den) IN
           IF p.min.n * den <= r.num /\ r.num <= p.max.n * den
           THEN RetValue(r)
           ELSE [k |-> "again"]

-----------------------------------------------------------------------------
(* Actions: Parameter and ParameterSampler *)

ParameterInitFromArgs(args) ==
    /\ par' = parameter_init_from_args(par, args).par
    /\ res' = [op |-> "Parameter.init_from_args", args |-> args,
               out |-> parameter_init_from_args(par, args).out]
    /\ UNCHANGED <<resampler, other, gridbuilder, axes, preload_arrays, fileformat,
                   slice, values, value_shapes, value_indexes, store, hist>>

DrawRandomParam(has_dist, u, den, k) ==
    /\ res' = [op |-> "draw_random_param", has_dist |-> has_dist, u |-> u, den |-> den,
               out |-> draw_random_param(par, has_dist, u, den, k)]
    /\ UNCHANGED <<companions, gridbuilder, axes, preload_arrays, fileformat, slice,
                   values, value_shapes, value_indexes, store, hist>>

-----------------------------------------------------------------------------
(* Specification of the parameter sampler *)

\* The samples of a distribution are u / SampleDen, from below 0 to above 1;
\* the limits of a parameter are among 1..MaxLimit.
SampleDen == 2
MaxLimit == 3

\* The value lists of the command line: none, one value, two values in
\* order, two equal values, two values out of order, three values.
ParameterValueLists ==
    {<<>>, <<1, 2, 3>>} \cup {<<a>> : a \in 1..MaxLimit}
        \cup {<<a, b>> : a \in 1..MaxLimit, b \in 1..MaxLimit}

ParameterArgs ==
    {[values |-> v, dist |-> d] :
        v \in {[set |-> FALSE, v |-> <<>>]} \cup
              {[set |-> TRUE, v |-> l] : l \in ParameterValueLists},
        d \in {[set |-> FALSE, v |-> "none"]} \cup
              {[set |-> TRUE, v |-> n] : n \in {"int", "normal"}}}

InitSampler == InitGrid({<<AxT>>}, {<<TRUE, "h5">>}, {}, {})

NextSampler ==
    \/ \E args \in ParameterArgs : ParameterInitFromArgs(args)
    \/ \E has_dist \in BOOLEAN, u \in (-1)..(SampleDen + 1), k \in 0..MaxLimit :
          DrawRandomParam(has_dist, u, SampleDen, k)

SpecSampler == InitSampler /\ [][NextSampler]_vars

-----------------------------------------------------------------------------
(* Claims: parameter sampling *)

\* C30: after an init_from_args with one value, or two with min <= max, and
\* with a distribution at hand, a draw gives a number between min and max: it
\* does not give None, a sample in [0, 1] is not rejected, and a parameter
\* with min = max is drawn as that constant.
C30_DrawWithinLimits ==
    (res.op = "draw_random_param" /\ par.ranged /\ res.has_dist)
        => /\ res.out.k \in {"value", "again"}
           /\ res.out.k = "again" => (res.u < 0 \/ res.u > res.den)
           /\ res.out.k = "value" =>
                 /\ par.min.n * res.out.data.den <= res.out.data.num
                 /\ res.out.data.num <= par.max.n * res.out.data.den

====
